---- MODULE Spec2Model ----
(***************************************************************************)
(* Shield Artillery: the declarative journey interpreter.                  *)
(*                                                                         *)
(*   FlowEngine          src/src/core/journey-loader.ts (289-679)           *)
(*   processor hooks     src/src/artillery/processor.ts (486-784)          *)
(*   ProfileDistributor  src/src/index.ts (617-931)                        *)
(*                                                                         *)
(* JavaScript values are tagged records, so that === and typeof can be     *)
(* computed.  JavaScript strings whose content is inspected are sequences  *)
(* of one-character strings; step ids and profile names, which the code    *)
(* only compares, are TLA+ strings, and "" stands for an unset (undefined  *)
(* or null) step id, which the code tests by truthiness.                   *)
(***************************************************************************)
EXTENDS Integers, Sequences, FiniteSets, TLC

-----------------------------------------------------------------------------
(* JavaScript values *)

Undefined == [t |-> "undefined"]

JsNull == [t |-> "null"]

Num(n) == [t |-> "number", v |-> n]

Str(s) == [t |-> "string", v |-> s]

Bool(b) == [t |-> "boolean", v |-> b]

Obj(m) == [t |-> "object", v |-> m]

Arr(s) == [t |-> "array", v |-> s]

\* typeof value
TypeOf(value) ==
  IF value.t \in {"null", "array"} THEN "object" ELSE value.t

\* JavaScript truthiness of a value
Truthy(value) ==
  CASE value.t = "undefined" -> FALSE
    [] value.t = "null" -> FALSE
    [] value.t = "number" -> value.v # 0
    [] value.t = "string" -> Len(value.v) > 0
    [] value.t = "boolean" -> value.v
    [] OTHER -> TRUE

\* a === b where a comes from the response and b from the journey document:
\* primitives compare by type and value, objects and arrays by identity, and
\* an object of the response is never the object of the document.
StrictEquals(a, b) ==
  /\ a.t = b.t
  /\ a.t \notin {"object", "array"}
  /\ a = b

\* the unset step id (undefined, null)
NoStep == ""

\* Array.prototype.indexOf, 1-based; 0 stands for JavaScript's -1
IndexOf(seq, x) ==
  IF \E i \in 1..Len(seq) : seq[i] = x
  THEN CHOOSE i \in 1..Len(seq) : seq[i] = x /\ \A k \in 1..(i - 1) : seq[k] # x
  ELSE 0

\* Array.prototype.includes on step ids
Includes(seq, x) == \E i \in 1..Len(seq) : seq[i] = x

\* String.prototype.includes
StringIncludes(s, sub) ==
  \E i \in 0..(Len(s) - Len(sub)) : SubSeq(s, i + 1, i + Len(sub)) = sub

\* String.prototype.toLowerCase on the letters the model uses
LowerChar(c) ==
  CASE c = "X" -> "x"
    [] c = "F" -> "f"
    [] c = "A" -> "a"
    [] c = "M" -> "m"
    [] OTHER -> c

ToLowerCase(s) == [i \in 1..Len(s) |-> LowerChar(s[i])]

\* obj[key] on a JavaScript object held as a function from keys
Get(m, key) == IF key \in DOMAIN m THEN m[key] ELSE Undefined

-----------------------------------------------------------------------------
(* JSON.parse, the regular expressions and JSONPath of the model's texts *)

Digits == {"0", "1", "2", "3", "4", "5", "6", "7", "8", "9"}

DigitValue(c) == CHOOSE n \in 0..9 : <<"0", "1", "2", "3", "4", "5", "6", "7", "8", "9">>[n + 1] = c

\* JSON.parse(text): the parsed value, or Throws for a SyntaxError.  The texts
\* recognised are {}, null, true, false and one digit; every other text the
\* model builds is not JSON.
Throws == [t |-> "throws"]

JSONParse(text) ==
  CASE text = <<"{", "}">> -> Obj(<<>>)
    [] text = <<"n", "u", "l", "l">> -> JsNull
    [] text = <<"t", "r", "u", "e">> -> Bool(TRUE)
    [] text = <<"f", "a", "l", "s", "e">> -> Bool(FALSE)
    [] Len(text) = 1 /\ text[1] \in Digits -> Num(DigitValue(text[1]))
    [] OTHER -> Throws

\* JSONPath({path, json, wrap: false}) for a path $.k1.k2...: held as the
\* sequence of property names; no match gives undefined.
RECURSIVE JSONPath(_, _)
JSONPath(path, json) ==
  IF Len(path) = 0 THEN json
  ELSE IF json.t # "object" THEN Undefined
  ELSE IF path[1] \notin DOMAIN json.v THEN Undefined
  ELSE JSONPath(Tail(path), json.v[path[1]])

\* new RegExp(pattern) throws on an unbalanced parenthesis
RegExpValid(pattern) ==
  Cardinality({i \in 1..Len(pattern) : pattern[i] = "("})
    = Cardinality({i \in 1..Len(pattern) : pattern[i] = ")"})

\* regex.test(s) for patterns made of literal characters with an optional
\* leading ^ and trailing $
RegExpTest(pattern, s) ==
  LET anchoredStart == Len(pattern) > 0 /\ pattern[1] = "^"
      p1 == IF anchoredStart THEN Tail(pattern) ELSE pattern
      anchoredEnd == Len(p1) > 0 /\ p1[Len(p1)] = "$"
      lit == IF anchoredEnd THEN SubSeq(p1, 1, Len(p1) - 1) ELSE p1
  IN  \E i \in 0..(Len(s) - Len(lit)) :
        /\ SubSeq(s, i + 1, i + Len(lit)) = lit
        /\ anchoredStart => i = 0
        /\ anchoredEnd => i + Len(lit) = Len(s)

-----------------------------------------------------------------------------
(* FlowEngine: src/src/core/journey-loader.ts *)

\* A Condition with every key absent; a condition of the model is this record
\* with the keys it sets overridden.
NoCondition ==
  [field |-> Undefined, status |-> Undefined, header |-> Undefined,
   eq |-> Undefined, ne |-> Undefined, gt |-> Undefined, gte |-> Undefined,
   lt |-> Undefined, lte |-> Undefined, contains |-> Undefined,
   matches |-> Undefined, exists |-> Undefined, in |-> Undefined]

\* new FlowEngine(journey): the step lookup map (a later step of the same id
\* replaces an earlier one) and the declared order
FlowEngine(j) ==
  [journey |-> j,
   stepOrder |-> [i \in 1..Len(j.steps) |-> j.steps[i].id],
   stepMap |-> [id \in {j.steps[i].id : i \in 1..Len(j.steps)} |->
                  j.steps[CHOOSE i \in 1..Len(j.steps) :
                            /\ j.steps[i].id = id
                            /\ \A k \in (i + 1)..Len(j.steps) : j.steps[k].id # id]]]

\* this.stepMap.has(id)
HasStep(fe, id) == id \in DOMAIN fe.stepMap

\* getStep(stepId): the step, or Undefined
getStep(fe, stepId) == IF HasStep(fe, stepId) THEN fe.stepMap[stepId] ELSE Undefined

\* getFirstStep(): journey.steps[0]
getFirstStep(fe) == IF Len(fe.journey.steps) > 0 THEN fe.journey.steps[1] ELSE Undefined

getNextSequentialStep_same(fe, currentStepId) ==
  LET currentIndex == IndexOf(fe.stepOrder, currentStepId)
  IN  IF currentIndex = 0 THEN Undefined ELSE getStep(fe, fe.stepOrder[currentIndex])

\* getNextSequentialStep(currentStepId): the step declared after it, or Undefined
getNextSequentialStep(fe, currentStepId) ==
  LET currentIndex == IndexOf(fe.stepOrder, currentStepId)
  IN  IF currentIndex = 0 \/ currentIndex >= Len(fe.stepOrder)
      THEN Undefined
      ELSE getStep(fe, fe.stepOrder[currentIndex + 1])

\* extractFieldValue(body, path)
extractFieldValue(body, path) ==
  IF body.t \in {"null", "undefined"} THEN Undefined
  ELSE LET parsed == IF body.t = "string" THEN JSONParse(body.v) ELSE body
       IN  IF parsed = Throws THEN Undefined
           ELSE LET results == JSONPath(path, parsed)
                IN  IF results.t = "array" /\ Len(results.v) = 1
                    THEN results.v[1]
                    ELSE results

\* an evaluateOperator that takes a pattern that does not compile as matching
evaluateOperator_badPatternMatches(condition, value) ==
  IF condition.eq # Undefined THEN StrictEquals(value, condition.eq)
  ELSE IF condition.ne # Undefined THEN ~StrictEquals(value, condition.ne)
  ELSE IF condition.gt # Undefined
    THEN value.t = "number" /\ value.v > condition.gt.v
  ELSE IF condition.gte # Undefined
    THEN value.t = "number" /\ value.v >= condition.gte.v
  ELSE IF condition.lt # Undefined
    THEN value.t = "number" /\ value.v < condition.lt.v
  ELSE IF condition.lte # Undefined
    THEN value.t = "number" /\ value.v <= condition.lte.v
  ELSE IF condition.contains # Undefined
    THEN value.t = "string" /\ StringIncludes(value.v, condition.contains.v)
  ELSE IF condition.matches # Undefined
    THEN /\ value.t = "string"
         /\ RegExpValid(condition.matches.v) => RegExpTest(condition.matches.v, value.v)
  ELSE IF condition.exists # Undefined
    THEN LET exists == value.t \notin {"undefined", "null"}
         IN  IF Truthy(condition.exists) THEN exists ELSE ~exists
  ELSE IF condition.in # Undefined
    THEN /\ condition.in.t = "array"
         /\ \E i \in 1..Len(condition.in.v) : StrictEquals(condition.in.v[i], value)
  ELSE FALSE

\* an evaluateOperator that tests ne before eq
evaluateOperator_neFirst(condition, value) ==
  IF condition.ne # Undefined THEN ~StrictEquals(value, condition.ne)
  ELSE IF condition.eq # Undefined THEN StrictEquals(value, condition.eq)
  ELSE IF condition.gt # Undefined
    THEN value.t = "number" /\ value.v > condition.gt.v
  ELSE IF condition.gte # Undefined
    THEN value.t = "number" /\ value.v >= condition.gte.v
  ELSE IF condition.lt # Undefined
    THEN value.t = "number" /\ value.v < condition.lt.v
  ELSE IF condition.lte # Undefined
    THEN value.t = "number" /\ value.v <= condition.lte.v
  ELSE IF condition.contains # Undefined
    THEN value.t = "string" /\ StringIncludes(value.v, condition.contains.v)
  ELSE IF condition.matches # Undefined
    THEN /\ value.t = "string"
         /\ RegExpValid(condition.matches.v)
         /\ RegExpTest(condition.matches.v, value.v)
  ELSE IF condition.exists # Undefined
    THEN LET exists == value.t \notin {"undefined", "null"}
         IN  IF Truthy(condition.exists) THEN exists ELSE ~exists
  ELSE IF condition.in # Undefined
    THEN /\ condition.in.t = "array"
         /\ \E i \in 1..Len(condition.in.v) : StrictEquals(condition.in.v[i], value)
  ELSE FALSE

\* evaluateOperator(condition, value): the first operator key present decides
evaluateOperator(condition, value) ==
  IF condition.eq # Undefined THEN StrictEquals(value, condition.eq)
  ELSE IF condition.ne # Undefined THEN ~StrictEquals(value, condition.ne)
  ELSE IF condition.gt # Undefined
    THEN value.t = "number" /\ value.v > condition.gt.v
  ELSE IF condition.gte # Undefined
    THEN value.t = "number" /\ value.v >= condition.gte.v
  ELSE IF condition.lt # Undefined
    THEN value.t = "number" /\ value.v < condition.lt.v
  ELSE IF condition.lte # Undefined
    THEN value.t = "number" /\ value.v <= condition.lte.v
  ELSE IF condition.contains # Undefined
    THEN value.t = "string" /\ StringIncludes(value.v, condition.contains.v)
  ELSE IF condition.matches # Undefined
    THEN /\ value.t = "string"
         /\ RegExpValid(condition.matches.v)
         /\ RegExpTest(condition.matches.v, value.v)
  ELSE IF condition.exists # Undefined
    THEN LET exists == value.t \notin {"undefined", "null"}
         IN  IF Truthy(condition.exists) THEN exists ELSE ~exists
  ELSE IF condition.in # Undefined
    THEN /\ condition.in.t = "array"
         /\ \E i \in 1..Len(condition.in.v) : StrictEquals(condition.in.v[i], value)
  ELSE FALSE

\* evaluateCondition(condition, response, state)
evaluateCondition(condition, response, state) ==
  IF Truthy(condition.field)
    THEN evaluateOperator(condition, extractFieldValue(response.body, condition.field.v))
  ELSE IF condition.status # Undefined
    THEN Num(response.statusCode) = condition.status
  ELSE IF Truthy(condition.header)
    THEN evaluateOperator(condition, Get(response.headers, ToLowerCase(condition.header.v)))
  ELSE FALSE

evaluateSimpleTransition_failureFirst(fe, step, response) ==
  LET isSuccess == response.statusCode >= 200 /\ response.statusCode < 300
      nextStep == getNextSequentialStep(fe, step.id)
  IN  IF step.onFailure # NoStep
      THEN [matched |-> TRUE, nextStepId |-> step.onFailure, matchedCondition |-> Undefined]
      ELSE IF isSuccess /\ step.onSuccess # NoStep
      THEN [matched |-> TRUE, nextStepId |-> step.onSuccess, matchedCondition |-> Undefined]
      ELSE [matched |-> FALSE,
            nextStepId |-> IF nextStep = Undefined THEN NoStep ELSE nextStep.id,
            matchedCondition |-> Undefined]

\* a transition that ends the journey on a failure no onFailure handles
evaluateSimpleTransition_stopsOnFailure(fe, step, response) ==
  LET isSuccess == response.statusCode >= 200 /\ response.statusCode < 300
      nextStep == getNextSequentialStep(fe, step.id)
  IN  IF isSuccess /\ step.onSuccess # NoStep
      THEN [matched |-> TRUE, nextStepId |-> step.onSuccess, matchedCondition |-> Undefined]
      ELSE IF ~isSuccess /\ step.onFailure # NoStep
      THEN [matched |-> TRUE, nextStepId |-> step.onFailure, matchedCondition |-> Undefined]
      ELSE [matched |-> FALSE,
            nextStepId |-> IF nextStep = Undefined \/ ~isSuccess THEN NoStep
                           ELSE nextStep.id,
            matchedCondition |-> Undefined]

\* evaluateSimpleTransition(step, response): onSuccess, onFailure, then the
\* step declared next
evaluateSimpleTransition(fe, step, response) ==
  LET isSuccess == response.statusCode >= 200 /\ response.statusCode < 300
      nextStep == getNextSequentialStep(fe, step.id)
  IN  IF isSuccess /\ step.onSuccess # NoStep
      THEN [matched |-> TRUE, nextStepId |-> step.onSuccess, matchedCondition |-> Undefined]
      ELSE IF ~isSuccess /\ step.onFailure # NoStep
      THEN [matched |-> TRUE, nextStepId |-> step.onFailure, matchedCondition |-> Undefined]
      ELSE [matched |-> FALSE,
            nextStepId |-> IF nextStep = Undefined THEN NoStep ELSE nextStep.id,
            matchedCondition |-> Undefined]

\* the loop of evaluateBranches from branch i on
RECURSIVE evaluateBranchesFrom(_, _, _, _, _)
evaluateBranchesFrom(fe, step, response, state, i) ==
  IF i > Len(step.branches) THEN evaluateSimpleTransition(fe, step, response)
  ELSE IF evaluateCondition(step.branches[i].condition, response, state)
  THEN [matched |-> TRUE, nextStepId |-> step.branches[i].goto,
        matchedCondition |-> step.branches[i].condition]
  ELSE evaluateBranchesFrom(fe, step, response, state, i + 1)

\* a loop that keeps the last matching branch
evaluateBranches_lastMatch(fe, step, response, state) ==
  LET matching == {i \in 1..Len(step.branches) :
                     evaluateCondition(step.branches[i].condition, response, state)}
  IN  IF matching = {} THEN evaluateSimpleTransition(fe, step, response)
      ELSE LET k == CHOOSE i \in matching : \A m \in matching : m <= i
           IN  [matched |-> TRUE, nextStepId |-> step.branches[k].goto,
                matchedCondition |-> step.branches[k].condition]

\* evaluateBranches(step, response, state)
evaluateBranches(fe, step, response, state) ==
  IF Len(step.branches) = 0 THEN evaluateSimpleTransition(fe, step, response)
  ELSE evaluateBranchesFrom(fe, step, response, state, 1)

\* an evaluateBranches that records the step in the state it is given
evaluateBranchesCall_recordsStep(fe, step, response, state) ==
  [value |-> evaluateBranches(fe, step, response, state),
   engine |-> fe, step |-> step, response |-> response,
   state |-> [state EXCEPT !.currentStepId = step.id,
                           !.executedSteps = Append(@, step.id)]]

\* one call of evaluateBranches: the value returned and the objects it was
\* given as the call leaves them; the method and the methods it calls
\* (evaluateCondition, extractFieldValue, evaluateOperator,
\* evaluateSimpleTransition, getNextSequentialStep) assign to none of them
evaluateBranchesCall(fe, step, response, state) ==
  [value |-> evaluateBranches(fe, step, response, state),
   engine |-> fe, step |-> step, response |-> response, state |-> state]

\* one call of evaluateCondition, likewise
evaluateConditionCall(fe, condition, response, state) ==
  [value |-> evaluateCondition(condition, response, state),
   engine |-> fe, condition |-> condition, response |-> response, state |-> state]

\* FlowEngine.shouldExecuteStep(stepId, state)
FlowEngine_shouldExecuteStep(fe, stepId, state) ==
  LET expectedStep == IF "__nextStep" \in DOMAIN state.variables
                      THEN state.variables.__nextStep ELSE NoStep
  IN  IF expectedStep = NoStep
      THEN Len(fe.stepOrder) > 0 /\ stepId = fe.stepOrder[1]
      ELSE IF stepId = expectedStep THEN TRUE
      ELSE IndexOf(fe.stepOrder, stepId) >= IndexOf(fe.stepOrder, expectedStep)

\* the outgoing edges enumeratePaths and findReachableSteps follow, in the
\* order the code adds them: branch targets, onSuccess, onFailure, sequential
NextTargets(fe, step) ==
  LET seqNext == getNextSequentialStep(fe, step.id)
  IN  [i \in 1..Len(step.branches) |-> step.branches[i].goto]
        \o (IF step.onSuccess # NoStep THEN <<step.onSuccess>> ELSE <<>>)
        \o (IF step.onFailure # NoStep THEN <<step.onFailure>> ELSE <<>>)
        \o (IF seqNext # Undefined THEN <<seqNext.id>> ELSE <<>>)

\* new Set(...) over a sequence of additions: insertion order, no duplicates
RECURSIVE OrderedSet(_)
OrderedSet(seq) ==
  IF Len(seq) = 0 THEN <<>>
  ELSE LET front == OrderedSet(SubSeq(seq, 1, Len(seq) - 1))
       IN  IF Includes(front, seq[Len(seq)]) THEN front ELSE Append(front, seq[Len(seq)])

\* traverse(stepId, currentPath) of enumeratePaths, with the visited set it
\* closes over; the value is the paths it pushes, in order
RECURSIVE traverse(_, _, _, _)
RECURSIVE traverseEach(_, _, _, _, _)
traverse_noCycleFlag(fe, stepId, currentPath, visited) ==
  LET step == getStep(fe, stepId)
      newPath == Append(currentPath, stepId)
  IN  IF step = Undefined THEN <<>>
      ELSE IF stepId \in visited
      THEN <<[steps |-> newPath, isComplete |-> TRUE, hasCycle |-> FALSE]>>
      ELSE LET nextSteps == OrderedSet(NextTargets(fe, step))
           IN  IF Len(nextSteps) = 0
               THEN <<[steps |-> newPath, isComplete |-> TRUE, hasCycle |-> FALSE]>>
               ELSE traverseEach(fe, nextSteps, 1, newPath, visited \cup {stepId})

\* a traverse that ends a path at every step that declares no transition
traverse_endsWithoutTransition(fe, stepId, currentPath, visited) ==
  LET step == getStep(fe, stepId)
      newPath == Append(currentPath, stepId)
  IN  IF step = Undefined THEN <<>>
      ELSE IF stepId \in visited
      THEN <<[steps |-> newPath, isComplete |-> FALSE, hasCycle |-> TRUE]>>
      ELSE LET nextSteps == OrderedSet(NextTargets(fe, step))
           IN  IF Len(step.branches) = 0 /\ step.onSuccess = NoStep
                  /\ step.onFailure = NoStep
               THEN <<[steps |-> newPath, isComplete |-> TRUE, hasCycle |-> FALSE]>>
               ELSE traverseEach(fe, nextSteps, 1, newPath, visited \cup {stepId})

traverse(fe, stepId, currentPath, visited) ==
  LET step == getStep(fe, stepId)
      newPath == Append(currentPath, stepId)
  IN  IF step = Undefined THEN <<>>
      ELSE IF stepId \in visited
      THEN <<[steps |-> newPath, isComplete |-> FALSE, hasCycle |-> TRUE]>>
      ELSE LET nextSteps == OrderedSet(NextTargets(fe, step))
           IN  IF Len(nextSteps) = 0
               THEN <<[steps |-> newPath, isComplete |-> TRUE, hasCycle |-> FALSE]>>
               ELSE traverseEach(fe, nextSteps, 1, newPath, visited \cup {stepId})

\* for (const nextId of nextSteps) traverse(nextId, newPath), from the i-th on
traverseEach(fe, nextSteps, i, newPath, visited) ==
  IF i > Len(nextSteps) THEN <<>>
  ELSE traverse(fe, nextSteps[i], newPath, visited)
         \o traverseEach(fe, nextSteps, i + 1, newPath, visited)

\* enumeratePaths()
enumeratePaths(fe) ==
  LET firstStep == getFirstStep(fe)
  IN  IF firstStep = Undefined THEN <<>> ELSE traverse(fe, firstStep.id, <<>>, {})

\* a reachability walk that follows the declared transitions only, not the
\* step declared next
RECURSIVE findReachableSteps_declaredOnly(_, _, _)
RECURSIVE findReachableDeclared(_, _, _, _)
findReachableSteps_declaredOnly(fe, stepId, reachable) ==
  IF stepId \in reachable THEN reachable
  ELSE IF ~HasStep(fe, stepId) THEN reachable
  ELSE LET step == fe.stepMap[stepId]
           targets == [i \in 1..Len(step.branches) |-> step.branches[i].goto]
                        \o (IF step.onSuccess # NoStep THEN <<step.onSuccess>> ELSE <<>>)
                        \o (IF step.onFailure # NoStep THEN <<step.onFailure>> ELSE <<>>)
       IN  findReachableDeclared(fe, targets, 1, reachable \cup {stepId})

findReachableDeclared(fe, targets, i, reachable) ==
  IF i > Len(targets) THEN reachable
  ELSE findReachableDeclared(fe, targets, i + 1,
                             findReachableSteps_declaredOnly(fe, targets[i], reachable))

\* findReachableSteps(stepId, reachable): the reachable set after the call
RECURSIVE findReachableSteps(_, _, _)
RECURSIVE findReachableEach(_, _, _, _)
findReachableSteps(fe, stepId, reachable) ==
  IF stepId \in reachable THEN reachable
  ELSE IF ~HasStep(fe, stepId) THEN reachable
  ELSE findReachableEach(fe, NextTargets(fe, fe.stepMap[stepId]), 1, reachable \cup {stepId})

findReachableEach(fe, targets, i, reachable) ==
  IF i > Len(targets) THEN reachable
  ELSE findReachableEach(fe, targets, i + 1, findReachableSteps(fe, targets[i], reachable))

\* the 'error' issues validate pushes for one step
stepErrors_branchesOnly(fe, step) ==
  LET danglingBranches == SelectSeq(step.branches, LAMBDA b : ~HasStep(fe, b.goto))
  IN  [i \in 1..Len(danglingBranches) |->
         [type |-> "error", stepId |-> step.id, target |-> danglingBranches[i].goto]]

stepErrors(fe, step) ==
  LET danglingBranches == SelectSeq(step.branches, LAMBDA b : ~HasStep(fe, b.goto))
  IN  [i \in 1..Len(danglingBranches) |->
         [type |-> "error", stepId |-> step.id, target |-> danglingBranches[i].goto]]
        \o (IF step.onSuccess # NoStep /\ ~HasStep(fe, step.onSuccess)
            THEN <<[type |-> "error", stepId |-> step.id, target |-> step.onSuccess]>>
            ELSE <<>>)
        \o (IF step.onFailure # NoStep /\ ~HasStep(fe, step.onFailure)
            THEN <<[type |-> "error", stepId |-> step.id, target |-> step.onFailure]>>
            ELSE <<>>)

RECURSIVE errorsFrom(_, _)
errorsFrom(fe, i) ==
  IF i > Len(fe.journey.steps) THEN <<>>
  ELSE stepErrors(fe, fe.journey.steps[i]) \o errorsFrom(fe, i + 1)

\* validate(): the error issues in step order, then one warning for every
\* step id of stepOrder that is unreachable from the first step
validate(fe) ==
  LET firstStep == getFirstStep(fe)
      reachable == IF firstStep = Undefined THEN {}
                   ELSE findReachableSteps(fe, firstStep.id, {})
      unreachable == SelectSeq(fe.stepOrder, LAMBDA id : id \notin reachable)
  IN  errorsFrom(fe, 1)
        \o [i \in 1..Len(unreachable) |->
              [type |-> "warning", stepId |-> unreachable[i], target |-> NoStep]]

-----------------------------------------------------------------------------
(* JourneyLoader.load: src/src/core/journey-loader.ts *)

\* resolveVariables(journey, context): a deep clone with baseUrl and defaults
\* interpolated; the steps are cloned as they are, and the journeys of the
\* model declare neither baseUrl nor defaults
resolveVariables(j) == [steps |-> [i \in 1..Len(j.steps) |-> j.steps[i]]]

\* a load that rejects a journey with any structure issue
load_rejectsWarnings(doc, options) ==
  LET resolved == resolveVariables(doc.journey)
      fe == FlowEngine(resolved)
      structureIssues == validate(fe)
  IN  IF ~doc.exists \/ ~doc.parses THEN Throws
      ELSE IF ~options.skipValidation /\ ~doc.schemaValid THEN Throws
      ELSE IF Len(structureIssues) > 0 THEN Throws
      ELSE [t |-> "LoadedJourney", journey |-> resolved, flowEngine |-> fe]

\* load(journeyPath, options) for a file that exists or not, holds JSON or
\* not, and passes the schema or not: the LoadedJourney, or Throws
load(doc, options) ==
  LET resolved == resolveVariables(doc.journey)
      fe == FlowEngine(resolved)
      structureIssues == validate(fe)
      errors == SelectSeq(structureIssues, LAMBDA i : i.type = "error")
  IN  IF ~doc.exists \/ ~doc.parses THEN Throws
      ELSE IF ~options.skipValidation /\ ~doc.schemaValid THEN Throws
      ELSE IF Len(errors) > 0 THEN Throws
      ELSE [t |-> "LoadedJourney", journey |-> resolved, flowEngine |-> fe]

-----------------------------------------------------------------------------
(* ProfileDistributor: src/src/index.ts *)

\* map.set(key, value) on a Map or object held as a function
MapSet(m, key, value) ==
  [x \in (DOMAIN m) \cup {key} |-> IF x = key THEN value ELSE m[x]]

\* the empty Map or object
EmptyMap == <<>>

\* a number held as an exact fraction
Frac(n, d) == [num |-> n, den |-> d]

\* a <= b on fractions with positive denominators
FracLeq(a, b) == a.num * b.den <= b.num * a.den

RECURSIVE SumWeights(_, _)
SumWeights(profiles, i) ==
  IF i > Len(profiles) THEN 0 ELSE profiles[i].weight + SumWeights(profiles, i + 1)

\* a constructor that accepts a total weight of zero
ProfileDistributor_noZeroCheck(config) ==
  LET profiles == config.profiles
      totalWeight == SumWeights(profiles, 1)
      names == {profiles[i].name : i \in 1..Len(profiles)}
  IN  IF FALSE THEN Throws
      ELSE [t |-> "ProfileDistributor",
            config |-> config,
            normalizedProfiles |->
              [i \in 1..Len(profiles) |->
                 [profile |-> profiles[i],
                  normalizedWeight |-> Frac(profiles[i].weight, totalWeight),
                  cumulativeWeight |->
                    Frac(SumWeights(SubSeq(profiles, 1, i), 1), totalWeight)]],
            userDataCache |-> EmptyMap,
            userIndexes |-> [n \in names |-> 0],
            sequenceCounters |-> EmptyMap,
            stats |-> [totalUsers |-> 0,
                       profileCounts |-> [n \in names |-> 0],
                       profilePercentages |-> [n \in names |-> Frac(0, 1)]]]

\* constructor and normalizeWeights: the distributor just constructed, or
\* Throws when the total weight is zero
ProfileDistributor(config) ==
  LET profiles == config.profiles
      totalWeight == SumWeights(profiles, 1)
      names == {profiles[i].name : i \in 1..Len(profiles)}
  IN  IF totalWeight = 0 THEN Throws
      ELSE [t |-> "ProfileDistributor",
            config |-> config,
            normalizedProfiles |->
              [i \in 1..Len(profiles) |->
                 [profile |-> profiles[i],
                  normalizedWeight |-> Frac(profiles[i].weight, totalWeight),
                  cumulativeWeight |->
                    Frac(SumWeights(SubSeq(profiles, 1, i), 1), totalWeight)]],
            userDataCache |-> EmptyMap,
            userIndexes |-> [n \in names |-> 0],
            sequenceCounters |-> EmptyMap,
            stats |-> [totalUsers |-> 0,
                       profileCounts |-> [n \in names |-> 0],
                       profilePercentages |-> [n \in names |-> Frac(0, 1)]]]

\* the record of a profile with no data: [{}]
EmptyRow == EmptyMap

\* loadData(), for profiles with inline data or none, from profile i on
RECURSIVE loadDataFrom(_, _)
loadDataFrom(d, i) ==
  IF i > Len(d.config.profiles) THEN d
  ELSE LET profile == d.config.profiles[i]
           rows == IF profile.data # Undefined THEN profile.data.v ELSE <<EmptyRow>>
       IN  loadDataFrom([d EXCEPT !.userDataCache = MapSet(@, profile.name, rows)], i + 1)

loadData(d) == loadDataFrom(d, 1)

selectProfile_strict(d, random) ==
  LET n == Len(d.normalizedProfiles)
      hits == {i \in 1..n : ~FracLeq(d.normalizedProfiles[i].cumulativeWeight, random)}
  IN  IF hits = {} THEN d.normalizedProfiles[n]
      ELSE d.normalizedProfiles[CHOOSE i \in hits : \A k \in hits : i <= k]

\* selectProfile(), given the value Math.random() returned
selectProfile(d, random) ==
  LET n == Len(d.normalizedProfiles)
      hits == {i \in 1..n : FracLeq(random, d.normalizedProfiles[i].cumulativeWeight)}
  IN  IF hits = {} THEN d.normalizedProfiles[n]
      ELSE d.normalizedProfiles[CHOOSE i \in hits : \A k \in hits : i <= k]

getNextUserData_noAdvance(d, profileName) ==
  LET data == IF profileName \in DOMAIN d.userDataCache
              THEN d.userDataCache[profileName] ELSE <<EmptyRow>>
      currentIndex == IF profileName \in DOMAIN d.userIndexes
                      THEN d.userIndexes[profileName] ELSE 0
  IN  [d |-> d,
       userData |-> IF Len(data) = 0 THEN EmptyRow
                    ELSE data[(currentIndex % Len(data)) + 1]]

\* a cursor that stays on the last row once it has reached it
getNextUserData_stall(d, profileName) ==
  LET data == IF profileName \in DOMAIN d.userDataCache
              THEN d.userDataCache[profileName] ELSE <<EmptyRow>>
      currentIndex == IF profileName \in DOMAIN d.userIndexes
                      THEN d.userIndexes[profileName] ELSE 0
  IN  [d |-> [d EXCEPT !.userIndexes = MapSet(@, profileName, currentIndex + 1)],
       userData |-> IF Len(data) = 0 THEN EmptyRow
                    ELSE IF currentIndex >= Len(data) THEN data[Len(data)]
                    ELSE data[currentIndex + 1]]

\* getNextUserData(profileName): the row at the cursor, and the cursor advanced
getNextUserData(d, profileName) ==
  LET data == IF profileName \in DOMAIN d.userDataCache
              THEN d.userDataCache[profileName] ELSE <<EmptyRow>>
      currentIndex == IF profileName \in DOMAIN d.userIndexes
                      THEN d.userIndexes[profileName] ELSE 0
  IN  [d |-> [d EXCEPT !.userIndexes = MapSet(@, profileName, currentIndex + 1)],
       userData |-> IF Len(data) = 0 THEN EmptyRow
                    ELSE data[(currentIndex % Len(data)) + 1]]

\* generateSequence(generator, key)
generateSequence(d, generator, key) ==
  LET start == IF generator.options.start # Undefined THEN generator.options.start.v ELSE 1
      step == IF generator.options.step # Undefined THEN generator.options.step.v ELSE 1
      current == IF key \in DOMAIN d.sequenceCounters
                 THEN d.sequenceCounters[key] + step ELSE start
  IN  [d |-> [d EXCEPT !.sequenceCounters = MapSet(@, key, current)],
       threw |-> FALSE,
       value |-> Num(current)]

\* the dotted paths of the fake-data provider that lead to a function; every
\* other path (a missing member, a member that is no function, no method)
\* makes generateFaker throw
FakerFunctions == {"person.firstName", "internet.email"}

\* executeGenerator(generator, profileName, generatorName); env holds what
\* uuidv4(), Date.now(), Math.random() and the fake-data provider return
executeGenerator(d, generator, profileName, generatorName, env) ==
  CASE generator.type = "uuid" -> [d |-> d, threw |-> FALSE, value |-> env.uuid]
    [] generator.type = "timestamp" -> [d |-> d, threw |-> FALSE, value |-> env.now]
    [] generator.type = "random" -> [d |-> d, threw |-> FALSE, value |-> env.randomValue]
    [] generator.type = "sequence" ->
         generateSequence(d, generator, profileName \o ":" \o generatorName)
    [] generator.type = "faker" ->
         IF generator.options.method \in FakerFunctions
         THEN [d |-> d, threw |-> FALSE, value |-> env.fake]
         ELSE [d |-> d, threw |-> TRUE, value |-> Undefined]
    [] OTHER -> [d |-> d, threw |-> TRUE, value |-> Undefined]

\* generateValues(profile), from generator i on: the loop stops at a throw
RECURSIVE generateValuesFrom(_, _, _, _, _)
generateValuesFrom(d, profile, i, generated, env) ==
  IF i > Len(profile.generators) THEN [d |-> d, threw |-> FALSE, value |-> generated]
  ELSE LET g == profile.generators[i]
           r == executeGenerator(d, g.generator, profile.name, g.name, env)
       IN  IF r.threw THEN r
           ELSE generateValuesFrom(r.d, profile, i + 1, MapSet(generated, g.name, r.value), env)

generateValues(d, profile, env) == generateValuesFrom(d, profile, 1, EmptyMap, env)

\* updatePercentages()
updatePercentages(stats, names) ==
  IF stats.totalUsers = 0 THEN stats
  ELSE [stats EXCEPT !.profilePercentages =
          [n \in DOMAIN @ |->
             IF n \in names THEN Frac(100 * stats.profileCounts[n], stats.totalUsers)
             ELSE @[n]]]

\* getNextUser(): the distributor after the call and the UserContext returned;
\* when a generator throws, the distributor as the throw leaves it
getNextUser(d, env) ==
  LET selected == selectProfile(d, env.random)
      profile == selected.profile
      row == getNextUserData(d, profile.name)
      gen == generateValues(row.d, profile, env)
      counted == [gen.d.stats EXCEPT !.totalUsers = @ + 1,
                                     !.profileCounts[profile.name] = @ + 1]
      names == {d.config.profiles[i].name : i \in 1..Len(d.config.profiles)}
  IN  IF gen.threw THEN [d |-> gen.d, threw |-> TRUE, value |-> Undefined]
      ELSE [d |-> [gen.d EXCEPT !.stats = updatePercentages(counted, names)],
            threw |-> FALSE,
            value |-> [profileName |-> profile.name,
                       userData |-> row.userData,
                       variables |-> profile.variables,
                       generatedValues |-> gen.value]]

\* a reset that leaves the sequence counters as they are
reset_keepsSequences(d) ==
  LET names == {d.config.profiles[i].name : i \in 1..Len(d.config.profiles)}
  IN  [d EXCEPT !.stats.totalUsers = 0,
                !.stats.profileCounts =
                  [n \in DOMAIN @ |-> IF n \in names THEN 0 ELSE @[n]],
                !.stats.profilePercentages =
                  [n \in DOMAIN @ |-> IF n \in names THEN Frac(0, 1) ELSE @[n]],
                !.userIndexes =
                  [n \in DOMAIN @ |-> IF n \in names THEN 0 ELSE @[n]]]

\* a reset that leaves the per-profile counts as they are
reset_keepsCounts(d) ==
  [d EXCEPT !.stats.totalUsers = 0,
            !.userIndexes = [n \in DOMAIN @ |-> 0],
            !.sequenceCounters = EmptyMap]

\* reset()
reset(d) ==
  LET names == {d.config.profiles[i].name : i \in 1..Len(d.config.profiles)}
  IN  [d EXCEPT !.stats.totalUsers = 0,
                !.stats.profileCounts =
                  [n \in DOMAIN @ |-> IF n \in names THEN 0 ELSE @[n]],
                !.stats.profilePercentages =
                  [n \in DOMAIN @ |-> IF n \in names THEN Frac(0, 1) ELSE @[n]],
                !.userIndexes =
                  [n \in DOMAIN @ |-> IF n \in names THEN 0 ELSE @[n]],
                !.sequenceCounters = EmptyMap]

\* an object created by the call that returns it
NewObject == [kind |-> "new"]

\* a getNextUserData that returns the row of the cache itself
userDataObject_sameRow(d, profileName) ==
  LET data == IF profileName \in DOMAIN d.userDataCache
              THEN d.userDataCache[profileName] ELSE <<EmptyRow>>
      currentIndex == IF profileName \in DOMAIN d.userIndexes
                      THEN d.userIndexes[profileName] ELSE 0
  IN  IF Len(data) = 0 \/ profileName \notin DOMAIN d.userDataCache THEN NewObject
      ELSE [kind |-> "row", cache |-> profileName,
            index |-> (currentIndex % Len(data)) + 1]

\* which object getNextUserData(profileName) returns: { ...userData } is an
\* object of its own, with the top-level fields of the row
userDataObject(d, profileName) == NewObject

\* which object getNextUser returns as variables: { ...profile.variables }
variablesObject(d, profileName) == NewObject

\* getStats(): { ...this.stats }, a new object whose totalUsers is the number
\* at the time of the call and whose profileCounts and profilePercentages
\* are the very objects this.stats holds
getStats(d) ==
  [totalUsers |-> d.stats.totalUsers,
   profileCounts |-> [ref |-> "profileCounts"],
   profilePercentages |-> [ref |-> "profilePercentages"]]

\* what a reference into this.stats reads now; the constructor creates the
\* two objects once and getNextUser and reset write into them in place
Deref(d, pointer) ==
  IF pointer.ref = "profileCounts" THEN d.stats.profileCounts
  ELSE d.stats.profilePercentages

-----------------------------------------------------------------------------
(* DataExtractor: src/src/core/config-merger.ts *)

\* JSON.stringify(body) for the bodies of the model: null, a one-digit
\* number, a boolean, a string without escapes, or an object with at most
\* one property (code, id) holding one of these
JSONStringify(body) ==
  LET Quoted(text) == <<"\"">> \o text \o <<"\"">>
      KeyText(key) == IF key = "code" THEN <<"c", "o", "d", "e">> ELSE <<"i", "d">>
      Primitive(value) ==
        CASE value.t = "null" -> <<"n", "u", "l", "l">>
          [] value.t = "number" ->
               <<<<"0", "1", "2", "3", "4", "5", "6", "7", "8", "9">>[value.v + 1]>>
          [] value.t = "string" -> Quoted(value.v)
          [] value.t = "boolean" ->
               IF value.v THEN <<"t", "r", "u", "e">> ELSE <<"f", "a", "l", "s", "e">>
          [] OTHER -> <<"{", "}">>
  IN  IF body.t # "object" THEN Primitive(body)
      ELSE IF DOMAIN body.v = {} THEN <<"{", "}">>
      ELSE LET key == CHOOSE k \in DOMAIN body.v : TRUE
           IN  <<"{">> \o Quoted(KeyText(key)) \o <<":">>
                 \o Primitive(body.v[key]) \o <<"}">>

\* an ExtractionResult
Success(value) == [success |-> TRUE, value |-> value, error |-> ""]

Failure(error) == [success |-> FALSE, value |-> Undefined, error |-> error]

\* extractJsonPath(body, path)
extractJsonPath(body, path) ==
  IF body.t \in {"null", "undefined"} THEN Failure("Response body is empty")
  ELSE LET jsonBody == IF body.t = "string" THEN JSONParse(body.v) ELSE body
       IN  IF jsonBody = Throws THEN Failure("Response body is not valid JSON")
           ELSE LET results == JSONPath(path, jsonBody)
                IN  IF results = Undefined \/ (results.t = "array" /\ Len(results.v) = 0)
                    THEN Failure("No match for path")
                    ELSE IF results.t = "array" /\ Len(results.v) = 1
                    THEN Success(results.v[1])
                    ELSE Success(results)

\* extractHeader(headers, headerName): the entry whose name equals the name
\* asked for when both are lower-cased; a header map holds a name once
extractHeader(headers, headerName) ==
  LET normalizedName == ToLowerCase(headerName)
      found == {key \in DOMAIN headers : ToLowerCase(key) = normalizedName}
  IN  IF found = {} THEN Failure("Header not found")
      ELSE Success(headers[CHOOSE key \in found : TRUE])

\* extractRegex(body, pattern): the pattern is the text before the first |;
\* a pattern of the model is literal characters with an optional leading ^
\* and trailing $ and has no capture group, so match[groupIndex] ?? match[0]
\* is the whole match
extractRegex(body, pattern) ==
  LET bodyStr == IF body.t = "string" THEN body.v ELSE JSONStringify(body)
      bars == {i \in 1..Len(pattern) : pattern[i] = "|"}
      regexPattern ==
        IF bars = {} THEN pattern
        ELSE SubSeq(pattern, 1, (CHOOSE i \in bars : \A k \in bars : i <= k) - 1)
      p1 == IF Len(regexPattern) > 0 /\ regexPattern[1] = "^"
            THEN Tail(regexPattern) ELSE regexPattern
      literal == IF Len(p1) > 0 /\ p1[Len(p1)] = "$"
                 THEN SubSeq(p1, 1, Len(p1) - 1) ELSE p1
  IN  IF ~RegExpValid(regexPattern) THEN Failure("Regex extraction failed")
      ELSE IF ~RegExpTest(regexPattern, bodyStr) THEN Failure("No match for pattern")
      ELSE Success(Str(literal))

\* applyTransform(value, transform): new Function('value', 'return ' +
\* transform)(value) for the expressions of the model; every other text
\* does not compile
applyTransform(value, transform) ==
  CASE transform = "value.code" ->
         IF value.t \in {"null", "undefined"} THEN Failure("Transform failed")
         ELSE IF value.t = "object" THEN Success(Get(value.v, "code"))
         ELSE Success(Undefined)
    [] transform = "!value" -> Success(Bool(~Truthy(value)))
    [] OTHER -> Failure("Transform failed")

\* the switch of extract: the extraction by type
extractByType(extraction, response) ==
  LET type == IF extraction.type = "" THEN "jsonpath" ELSE extraction.type
  IN  CASE type = "jsonpath" -> extractJsonPath(response.body, extraction.path)
        [] type = "header" -> extractHeader(response.headers, extraction.path)
        [] type = "regex" -> extractRegex(response.body, extraction.path)
        [] type = "status" -> Success(Num(response.statusCode))
        [] OTHER -> Failure("Unknown extraction type")

\* an extract that transforms before it falls back to the default
extract_transformFirst(extraction, response) ==
  LET typed == extractByType(extraction, response)
      transformed == IF typed.success /\ extraction.transform # ""
                     THEN applyTransform(typed.value, extraction.transform)
                     ELSE typed
  IN  IF ~transformed.success /\ extraction.default # Undefined
      THEN Success(extraction.default)
      ELSE transformed

\* extract(extraction, response)
extract(extraction, response) ==
  LET typed == extractByType(extraction, response)
      withDefault == IF ~typed.success /\ extraction.default # Undefined
                     THEN Success(extraction.default)
                     ELSE typed
  IN  IF withDefault.success /\ extraction.transform # ""
      THEN applyTransform(withDefault.value, extraction.transform)
      ELSE withDefault

RECURSIVE extractAllFrom(_, _, _, _)
\* the loop of extractAll from extraction i on
extractAllFrom(extractions, response, i, acc) ==
  IF i > Len(extractions) THEN acc
  ELSE LET extraction == extractions[i]
           r == extract(extraction, response)
       IN  extractAllFrom(extractions, response, i + 1,
             IF r.success
             THEN [acc EXCEPT !.variables = MapSet(@, extraction.as, r.value)]
             ELSE IF extraction.default # Undefined
             THEN [acc EXCEPT !.variables = MapSet(@, extraction.as, extraction.default)]
             ELSE [acc EXCEPT !.errors =
                     Append(@, [as |-> extraction.as, error |-> r.error])])

RECURSIVE extractAll_ignoresDefault(_, _)
\* an extractAll that binds successes only and records every failure
extractAll_ignoresDefault(extractions, response) ==
  IF Len(extractions) = 0 THEN [variables |-> EmptyMap, errors |-> <<>>]
  ELSE LET last == extractions[Len(extractions)]
           r == extract(last, response)
           front == extractAll_ignoresDefault(
                      SubSeq(extractions, 1, Len(extractions) - 1), response)
       IN  IF r.success
           THEN [front EXCEPT !.variables = MapSet(@, last.as, r.value)]
           ELSE [front EXCEPT !.errors = Append(@, [as |-> last.as, error |-> r.error])]

RECURSIVE extractAll_stopsAtFailure(_, _)
\* an extractAll that gives up at the first extraction that fails
extractAll_stopsAtFailure(extractions, response) ==
  IF Len(extractions) = 0 THEN [variables |-> EmptyMap, errors |-> <<>>]
  ELSE LET r == extract(extractions[1], response)
           rest == extractAll_stopsAtFailure(Tail(extractions), response)
       IN  IF ~r.success
           THEN [variables |-> EmptyMap,
                 errors |-> <<[as |-> extractions[1].as, error |-> r.error]>>]
           ELSE [variables |->
                   [x \in (DOMAIN rest.variables) \cup {extractions[1].as} |->
                      IF x \in DOMAIN rest.variables THEN rest.variables[x]
                      ELSE r.value],
                 errors |-> rest.errors]

\* extractAll(extractions, response)
extractAll(extractions, response) ==
  extractAllFrom(extractions, response, 1, [variables |-> EmptyMap, errors |-> <<>>])

-----------------------------------------------------------------------------
(* The journeys and responses the model runs *)

\* number of steps of a journey
NumSteps == 3

StepIdOf(i) == "s" \o ToString(i)

StepIds == {StepIdOf(i) : i \in 1..NumSteps}

\* a target no step has
Ghost == "ghost"

\* status === 404
ConditionA == [NoCondition EXCEPT !.status = Num(404)]

\* $.code === "MFA"
ConditionB ==
  [NoCondition EXCEPT !.field = Str(<<"code">>), !.eq = Str(<<"M", "F", "A">>)]

\* Where a step can declare a transition: three branch positions, in this
\* order in step.branches (the first and third carry ConditionA, the second
\* ConditionB), then onSuccess and onFailure.
BranchSlots == <<"branchA", "branchB", "branchA2">>

SlotCondition(slot) == IF slot = "branchB" THEN ConditionB ELSE ConditionA

Edges(slots, targets) == [step : 1..NumSteps, slot : slots, target : targets]

\* the sets of at most two declared transitions, no slot used twice
EdgeSets(slots, targets) ==
  {{}} \cup {{e} : e \in Edges(slots, targets)}
       \cup {ee \in {{e1, e2} : e1 \in Edges(slots, targets), e2 \in Edges(slots, targets)} :
               \A e1 \in ee, e2 \in ee : e1 # e2 => (e1.step # e2.step \/ e1.slot # e2.slot)}

TargetOf(E, i, slot) ==
  IF \E e \in E : e.step = i /\ e.slot = slot
  THEN (CHOOSE e \in E : e.step = i /\ e.slot = slot).target
  ELSE NoStep

RECURSIVE BranchesOf(_, _, _)
BranchesOf(E, i, k) ==
  IF k > Len(BranchSlots) THEN <<>>
  ELSE (IF TargetOf(E, i, BranchSlots[k]) # NoStep
        THEN <<[condition |-> SlotCondition(BranchSlots[k]),
                goto |-> TargetOf(E, i, BranchSlots[k])]>>
        ELSE <<>>) \o BranchesOf(E, i, k + 1)

\* the Journey document with the declared transitions E
JourneyOf(E) ==
  [steps |-> [i \in 1..NumSteps |->
                [id |-> StepIdOf(i),
                 branches |-> BranchesOf(E, i, 1),
                 onSuccess |-> TargetOf(E, i, "onSuccess"),
                 onFailure |-> TargetOf(E, i, "onFailure")]]]

AllSlots == {"branchA", "branchB", "branchA2", "onSuccess", "onFailure"}

\* journeys as a document may declare them, dangling targets included
Journeys == {JourneyOf(E) : E \in EdgeSets(AllSlots, StepIds \cup {Ghost})}

StatusCodes == {199, 200, 299, 300, 404}

Bodies == {Obj([code |-> Str(<<"M", "F", "A">>)]), JsNull}

\* StepResponse
Responses == [statusCode : StatusCodes, headers : {<<>>}, body : Bodies]

-----------------------------------------------------------------------------
(* State *)

VARIABLES
  journey,             \* processor.ts: let journey
  flowEngine,          \* processor.ts: let flowEngine
  dataExtractor,       \* processor.ts: let dataExtractor
  profileDistributor,  \* processor.ts: let profileDistributor
  config,              \* the generated script's config.variables
  context,             \* context.vars of every virtual user
  host,                \* where the engine stands in every virtual user's flow
  result,              \* the value the last FlowEngine call returned
  delivered            \* the UserContexts getNextUser has returned, in order

moduleVars == <<journey, flowEngine, dataExtractor, profileDistributor>>

vars == <<journey, flowEngine, dataExtractor, profileDistributor,
          config, context, host, result, delivered>>

Null == [t |-> "null"]

NoResult == [op |-> "none"]

\* context.vars[key] of a key holding a step id; unset reads as no step
StepVar(contextVars, key) ==
  IF key \in DOMAIN contextVars THEN contextVars[key] ELSE NoStep

\* (context.vars[key] as string[]) || []
ListVar(contextVars, key) ==
  IF key \in DOMAIN contextVars THEN contextVars[key] ELSE <<>>

\* the FlowState afterResponse builds for a step
FlowStateOf(stepId, contextVars) ==
  [currentStepId |-> stepId,
   variables |-> contextVars,
   executedSteps |-> ListVar(contextVars, "__executedSteps")]

\* context.vars with no flow state yet
FreshVars == EmptyMap

-----------------------------------------------------------------------------
(* The processor hooks: src/src/artillery/processor.ts *)

TEMPLATE_OPEN_MARKER == "__SHIELD_VAR_OPEN__"

TEMPLATE_CLOSE_MARKER == "__SHIELD_VAR_CLOSE__"

\* the characters of a marker
MarkerText(marker) ==
  IF marker = TEMPLATE_OPEN_MARKER
  THEN <<"_", "_", "S", "H", "I", "E", "L", "D", "_", "V", "A", "R", "_",
         "O", "P", "E", "N", "_", "_">>
  ELSE <<"_", "_", "S", "H", "I", "E", "L", "D", "_", "V", "A", "R", "_",
         "C", "L", "O", "S", "E", "_", "_">>

RECURSIVE replaceAll(_, _, _)
\* str.replace(/pattern/g, replacement) for a pattern of literal characters:
\* the occurrences from the left, none overlapping, the result not rescanned
replaceAll(str, pattern, replacement) ==
  IF Len(str) < Len(pattern) THEN str
  ELSE IF SubSeq(str, 1, Len(pattern)) = pattern
  THEN replacement \o replaceAll(SubSeq(str, Len(pattern) + 1, Len(str)),
                                  pattern, replacement)
  ELSE <<str[1]>> \o replaceAll(Tail(str), pattern, replacement)

RECURSIVE escapeTemplateMarkers(_)
\* escapeTemplateMarkers(obj) of script-generator.ts, on a value whose
\* strings are sequences of characters
escapeTemplateMarkers(obj) ==
  CASE obj.t = "string" ->
         Str(replaceAll(replaceAll(obj.v, <<"{", "{">>, MarkerText(TEMPLATE_OPEN_MARKER)),
                        <<"}", "}">>, MarkerText(TEMPLATE_CLOSE_MARKER)))
    [] obj.t = "array" -> Arr([i \in 1..Len(obj.v) |-> escapeTemplateMarkers(obj.v[i])])
    [] obj.t = "object" -> Obj([k \in DOMAIN obj.v |-> escapeTemplateMarkers(obj.v[k])])
    [] OTHER -> obj

RECURSIVE unescapeMarkers(_)
\* unescapeTemplateMarkers(obj) of processor.ts, on a value whose strings are
\* sequences of characters
unescapeMarkers(obj) ==
  CASE obj.t = "string" ->
         Str(replaceAll(replaceAll(obj.v, MarkerText(TEMPLATE_OPEN_MARKER), <<"{", "{">>),
                        MarkerText(TEMPLATE_CLOSE_MARKER), <<"}", "}">>))
    [] obj.t = "array" -> Arr([i \in 1..Len(obj.v) |-> unescapeMarkers(obj.v[i])])
    [] obj.t = "object" -> Obj([k \in DOMAIN obj.v |-> unescapeMarkers(obj.v[k])])
    [] OTHER -> obj

\* what unescapeTemplateMarkers does to a string that is one token: a marker
\* becomes the brace pair it stands for, any other token is kept
unescapeString(str) ==
  IF str = TEMPLATE_OPEN_MARKER THEN "{{"
  ELSE IF str = TEMPLATE_CLOSE_MARKER THEN "}}"
  ELSE str

\* unescapeTemplateMarkers on a journey document: every string of it
unescapeTemplateMarkers(j) ==
  [steps |-> [i \in 1..Len(j.steps) |->
     [id |-> unescapeString(j.steps[i].id),
      branches |-> [k \in 1..Len(j.steps[i].branches) |->
         [condition |-> j.steps[i].branches[k].condition,
          goto |-> unescapeString(j.steps[i].branches[k].goto)]],
      onSuccess |-> unescapeString(j.steps[i].onSuccess),
      onFailure |-> unescapeString(j.steps[i].onFailure)]]]

\* unescapeTemplateMarkers on a ProfileConfig: every string of it
unescapeProfileConfig(c) ==
  [profiles |-> [i \in 1..Len(c.profiles) |->
     [c.profiles[i] EXCEPT !.name = unescapeString(c.profiles[i].name)]]]

\* new DataExtractor(): it has no fields
DataExtractor == [t |-> "DataExtractor"]

\* the four module-level variables as one record
ModuleState ==
  [journey |-> journey, flowEngine |-> flowEngine,
   dataExtractor |-> dataExtractor, profileDistributor |-> profileDistributor]

\* ProfileDistributor.loadDataSync(): the inline data of every profile
loadDataSync(d) == loadDataFrom(d, 1)

\* the module state after ensureJourneyInitialized(context); threw when the
\* ProfileDistributor constructor throws
ensureJourneyInitialized(m, contextVars) ==
  LET init == m.journey = Null /\ "__journey" \in DOMAIN contextVars
      j == IF init THEN unescapeTemplateMarkers(contextVars["__journey"])
           ELSE m.journey
      create == /\ m.profileDistributor = Null
                /\ "__profileDistributor" \notin DOMAIN contextVars
                /\ "__profiles" \in DOMAIN contextVars
      created == ProfileDistributor(unescapeProfileConfig(contextVars["__profiles"]))
  IN  [journey |-> j,
       flowEngine |-> IF init THEN FlowEngine(j) ELSE m.flowEngine,
       dataExtractor |-> IF m.dataExtractor = Null THEN DataExtractor
                         ELSE m.dataExtractor,
       profileDistributor |->
         IF m.profileDistributor # Null THEN m.profileDistributor
         ELSE IF "__profileDistributor" \in DOMAIN contextVars
              THEN contextVars["__profileDistributor"]
         ELSE IF create /\ created # Throws THEN loadDataSync(created)
         ELSE Null,
       threw |-> create /\ created = Throws]

\* for (const [key, value] of Object.entries(source)) context.vars[key] = value
assignAll(contextVars, source) ==
  [x \in (DOMAIN contextVars) \cup (DOMAIN source) |->
     IF x \in DOMAIN source THEN source[x] ELSE contextVars[x]]

\* Date.now(): the model keeps no clock
Now == "now"

\* setupUser: the module state and context.vars it leaves behind
setupUser(m, contextVars, env) ==
  LET m1 == ensureJourneyInitialized(m, contextVars)
      next == getNextUser(m1.profileDistributor, env)
      user == next.value
      merged ==
        IF m1.profileDistributor = Null THEN contextVars
        ELSE assignAll(
               assignAll(MapSet(MapSet(contextVars, "user", user.userData),
                                "profile", user.profileName),
                         user.generatedValues),
               user.variables)
      flow == MapSet(MapSet(MapSet(merged, "__executedSteps", <<>>),
                            "__currentPath", <<>>),
                     "__journeyStartTime", Now)
  IN  IF m1.threw THEN [module |-> m1, vars |-> contextVars, threw |-> TRUE]
      ELSE IF m1.profileDistributor # Null /\ next.threw
      THEN [module |-> [m1 EXCEPT !.profileDistributor = next.d],
            vars |-> contextVars, threw |-> TRUE]
      ELSE [module |-> IF m1.profileDistributor = Null THEN m1
                       ELSE [m1 EXCEPT !.profileDistributor = next.d],
            vars |-> flow, threw |-> FALSE]

\* the characters of the keys of context.vars the model looks into
KeyText(key) ==
  CASE key = "__journey" -> <<"_", "_", "j", "o", "u", "r", "n", "e", "y">>
    [] key = "__nextStep" -> <<"_", "_", "n", "e", "x", "t", "S", "t", "e", "p">>
    [] key = "_csrf" -> <<"_", "c", "s", "r", "f">>
    [] key = "token" -> <<"t", "o", "k", "e", "n">>
    [] key = "$uuid" -> <<"$", "u", "u", "i", "d">>
    [] key = "$timestamp" -> <<"$", "t", "i", "m", "e", "s", "t", "a", "m", "p">>
    [] key = "$isoTimestamp" ->
         <<"$", "i", "s", "o", "T", "i", "m", "e", "s", "t", "a", "m", "p">>

\* key.startsWith(prefix)
startsWith(key, prefix) ==
  /\ Len(KeyText(key)) >= Len(prefix)
  /\ SubSeq(KeyText(key), 1, Len(prefix)) = prefix

\* an interpolation context that copies every key of context.vars
buildInterpolationContext_copiesAll(contextVars, fresh) ==
  MapSet(MapSet(MapSet(contextVars, "$uuid", fresh.uuid),
                "$timestamp", fresh.timestamp),
         "$isoTimestamp", fresh.isoTimestamp)

\* buildInterpolationContext(context); fresh holds what crypto.randomUUID(),
\* Date.now() and new Date().toISOString() return in this call
buildInterpolationContext(contextVars, fresh) ==
  LET copied == [key \in {k \in DOMAIN contextVars : ~startsWith(k, <<"_", "_">>)}
                   |-> contextVars[key]]
  IN  MapSet(MapSet(MapSet(copied, "$uuid", fresh.uuid),
                    "$timestamp", fresh.timestamp),
             "$isoTimestamp", fresh.isoTimestamp)

\* a beforeRequest that records the step as executed when the request is sent
beforeRequest_recordsStep(m, contextVars, stepId) ==
  LET m1 == ensureJourneyInitialized(m, contextVars)
  IN  IF m1.threw THEN [module |-> m1, vars |-> contextVars, threw |-> TRUE]
      ELSE IF m1.journey = Null \/ stepId = NoStep
              \/ ~HasStep(m1.flowEngine, stepId)
      THEN [module |-> m1, vars |-> contextVars, threw |-> FALSE]
      ELSE [module |-> m1,
            vars |-> MapSet(MapSet(MapSet(contextVars, "__currentStepId", stepId),
                                   "__stepStartTime", Now),
                            "__executedSteps",
                            Append(ListVar(contextVars, "__executedSteps"), stepId)),
            threw |-> FALSE]

\* beforeRequest: the module state and context.vars it leaves behind
beforeRequest(m, contextVars, stepId) ==
  LET m1 == ensureJourneyInitialized(m, contextVars)
  IN  IF m1.threw THEN [module |-> m1, vars |-> contextVars, threw |-> TRUE]
      ELSE IF m1.journey = Null \/ stepId = NoStep
              \/ ~HasStep(m1.flowEngine, stepId)
      THEN [module |-> m1, vars |-> contextVars, threw |-> FALSE]
      ELSE [module |-> m1,
            vars |-> MapSet(MapSet(contextVars, "__currentStepId", stepId),
                            "__stepStartTime", Now),
            threw |-> FALSE]

\* afterResponse: context.vars after the hook; the module state is only read.
\* Pushing to a list setupUser has not created throws, after the decision
\* has been stored.
afterResponse(m, contextVars, stepId, response) ==
  IF m.journey = Null \/ m.flowEngine = Null \/ m.dataExtractor = Null
     \/ stepId = NoStep
  THEN [vars |-> contextVars, threw |-> FALSE]
  ELSE IF ~HasStep(m.flowEngine, stepId)
  THEN [vars |-> contextVars, threw |-> FALSE]
  ELSE LET step == getStep(m.flowEngine, stepId)
           flowState == FlowStateOf(stepId, contextVars)
           branchResult == evaluateBranches(m.flowEngine, step, response, flowState)
           decided == MapSet(contextVars, "__nextStep", branchResult.nextStepId)
           pushed == MapSet(decided, "__executedSteps",
                            Append(decided["__executedSteps"], stepId))
       IN  IF "__executedSteps" \notin DOMAIN decided
           THEN [vars |-> decided, threw |-> TRUE]
           ELSE IF "__currentPath" \notin DOMAIN pushed
           THEN [vars |-> pushed, threw |-> TRUE]
           ELSE [vars |-> MapSet(pushed, "__currentPath",
                                 Append(pushed["__currentPath"], stepId)),
                 threw |-> FALSE]

\* a guard that also records the step it lets through
shouldExecuteStep_marks(m, contextVars, stepId) ==
  LET m1 == ensureJourneyInitialized(m, contextVars)
      nextStep == StepVar(contextVars, "__nextStep")
      executedSteps == ListVar(contextVars, "__executedSteps")
      value == IF Len(executedSteps) = 0 /\ m1.journey # Null
               THEN Len(m1.journey.steps) > 0 /\ stepId = m1.journey.steps[1].id
               ELSE IF Includes(executedSteps, stepId) THEN FALSE
               ELSE IF nextStep # NoStep THEN stepId = nextStep
               ELSE FALSE
  IN  [module |-> m1,
       vars |-> IF value THEN MapSet(contextVars, "__nextStep", NoStep)
                ELSE contextVars,
       value |-> value, threw |-> m1.threw]

\* a guard that does not look at the steps already executed
shouldExecuteStep_noExecutedCheck(m, contextVars, stepId) ==
  LET m1 == ensureJourneyInitialized(m, contextVars)
      nextStep == StepVar(contextVars, "__nextStep")
      executedSteps == ListVar(contextVars, "__executedSteps")
  IN  [module |-> m1, vars |-> contextVars,
       value |-> IF Len(executedSteps) = 0 /\ m1.journey # Null
                 THEN Len(m1.journey.steps) > 0 /\ stepId = m1.journey.steps[1].id
                 ELSE IF nextStep # NoStep THEN stepId = nextStep
                 ELSE FALSE,
       threw |-> m1.threw]

\* a guard that decides by the rule of FlowEngine.shouldExecuteStep
shouldExecuteStep_engineRule(m, contextVars, stepId) ==
  LET m1 == ensureJourneyInitialized(m, contextVars)
  IN  [module |-> m1, vars |-> contextVars,
       value |-> IF m1.flowEngine = Null THEN FALSE
                 ELSE FlowEngine_shouldExecuteStep(m1.flowEngine, stepId,
                                                   FlowStateOf(stepId, contextVars)),
       threw |-> m1.threw]

\* shouldExecuteStep(context, stepId) of the processor: the value it returns
\* and the module state and context.vars it leaves behind
shouldExecuteStep(m, contextVars, stepId) ==
  LET m1 == ensureJourneyInitialized(m, contextVars)
      nextStep == StepVar(contextVars, "__nextStep")
      executedSteps == ListVar(contextVars, "__executedSteps")
  IN  [module |-> m1, vars |-> contextVars,
       value |-> IF Len(executedSteps) = 0 /\ m1.journey # Null
                 THEN Len(m1.journey.steps) > 0 /\ stepId = m1.journey.steps[1].id
                 ELSE IF Includes(executedSteps, stepId) THEN FALSE
                 ELSE IF nextStep # NoStep THEN stepId = nextStep
                 ELSE FALSE,
       threw |-> m1.threw]

-----------------------------------------------------------------------------
(* SpecFlow: the FlowEngine of one journey, called once *)

InitFlow ==
  /\ journey \in Journeys
  /\ flowEngine = FlowEngine(journey)
  /\ dataExtractor = Null
  /\ profileDistributor = Null
  /\ config = EmptyMap
  /\ context = EmptyMap
  /\ host = EmptyMap
  /\ delivered = <<>>
  /\ result = NoResult

EvaluateBranches(i, response) ==
  /\ result = NoResult
  /\ result' = [op |-> "evaluateBranches", index |-> i, response |-> response,
                value |-> evaluateBranches(flowEngine, journey.steps[i], response,
                                           FlowStateOf(journey.steps[i].id, FreshVars))]
  /\ UNCHANGED <<journey, flowEngine, dataExtractor, profileDistributor,
                 config, context, host, delivered>>

Validate ==
  /\ result = NoResult
  /\ result' = [op |-> "validate", value |-> validate(flowEngine)]
  /\ UNCHANGED <<journey, flowEngine, dataExtractor, profileDistributor,
                 config, context, host, delivered>>

EnumeratePaths ==
  /\ result = NoResult
  /\ result' = [op |-> "enumeratePaths", value |-> enumeratePaths(flowEngine)]
  /\ UNCHANGED <<journey, flowEngine, dataExtractor, profileDistributor,
                 config, context, host, delivered>>

NextFlow ==
  \/ \E i \in 1..NumSteps, response \in Responses : EvaluateBranches(i, response)
  \/ Validate
  \/ EnumeratePaths

SpecFlow == InitFlow /\ [][NextFlow]_vars

-----------------------------------------------------------------------------
(* Claims about the FlowEngine, under SpecFlow *)

\* the step and the branches that are true for the call held in result
CalledStep == journey.steps[result.index]

TrueBranches ==
  {k \in 1..Len(CalledStep.branches) :
     evaluateCondition(CalledStep.branches[k].condition, result.response,
                       FlowStateOf(CalledStep.id, FreshVars))}

FirstTrueBranch == CHOOSE k \in TrueBranches : \A m \in TrueBranches : k <= m

\* C1: when Bk is the first branch of the step, in declared order, whose
\* condition is true for the response, evaluateBranches returns matched = true
\* and nextStepId = Bk.goto, whether or not a later branch is true as well.
C1_FirstTrueBranchWins ==
  (result.op = "evaluateBranches" /\ TrueBranches # {})
    => /\ result.value.matched = TRUE
       /\ result.value.nextStepId = CalledStep.branches[FirstTrueBranch].goto

\* C1 witness: a call on a step with two true branches of different targets
C1_Witness ==
  /\ result.op = "evaluateBranches"
  /\ Cardinality(TrueBranches) = 2
  /\ CalledStep.branches[1].goto # CalledStep.branches[2].goto
  /\ result.value.nextStepId = CalledStep.branches[1].goto

IsSuccessStatus(statusCode) == statusCode >= 200 /\ statusCode < 300

\* the id of the step declared immediately after the i-th one, none for the last
DeclaredAfter(i) == IF i < Len(journey.steps) THEN journey.steps[i + 1].id ELSE NoStep

\* C2: with no branch, or no true branch, the next step id is onSuccess when
\* the status is in [200,300) and onSuccess is set; else onFailure when the
\* status is outside [200,300) and onFailure is set; else the id of the step
\* declared immediately after this one, or none for the last step.
C2_FallbackChain ==
  (result.op = "evaluateBranches" /\ TrueBranches = {})
    => result.value.nextStepId =
         IF IsSuccessStatus(result.response.statusCode) /\ CalledStep.onSuccess # NoStep
           THEN CalledStep.onSuccess
         ELSE IF ~IsSuccessStatus(result.response.statusCode) /\ CalledStep.onFailure # NoStep
           THEN CalledStep.onFailure
         ELSE DeclaredAfter(result.index)

\* C2 witness: a branch that is not true, a success status, onFailure set and
\* onSuccess unset: the sequential step is taken
C2_Witness ==
  /\ result.op = "evaluateBranches"
  /\ Len(CalledStep.branches) = 1
  /\ TrueBranches = {}
  /\ result.response.statusCode = 299
  /\ CalledStep.onSuccess = NoStep
  /\ CalledStep.onFailure # NoStep
  /\ result.index < NumSteps
  /\ result.value.nextStepId = StepIdOf(result.index + 1)

\* every target a journey declares
DeclaredTargets ==
  UNION {{journey.steps[i].branches[k].goto : k \in 1..Len(journey.steps[i].branches)}
           \cup ({journey.steps[i].onSuccess, journey.steps[i].onFailure} \ {NoStep}) :
         i \in 1..Len(journey.steps)}

ExistingStepIds == {journey.steps[i].id : i \in 1..Len(journey.steps)}

ErrorIssues(issues) == {i \in 1..Len(issues) : issues[i].type = "error"}

\* C6: validate returns no issue of type 'error' if and only if every
\* branch.goto, onSuccess and onFailure names an existing step id.
C6_ValidateErrorsIffDangling ==
  result.op = "validate"
    => ((ErrorIssues(result.value) = {}) <=> (DeclaredTargets \subseteq ExistingStepIds))

\* C6 witness: a journey whose only dangling target is an onFailure, reported
C6_Witness ==
  /\ result.op = "validate"
  /\ \E i \in 1..NumSteps : journey.steps[i].onFailure = Ghost
  /\ \A i \in 1..NumSteps : journey.steps[i].onSuccess # Ghost
                             /\ Len(journey.steps[i].branches) = 0
  /\ Cardinality(ErrorIssues(result.value)) = 1

\* C31: on a journey for which validate reports no error, the next step id
\* evaluateBranches returns is the id of a step of the journey or none; none
\* is returned only for the last declared step, when no branch is true and
\* neither onSuccess nor onFailure applies to the status.
C31_NextStepExists ==
  (result.op = "evaluateBranches" /\ ErrorIssues(validate(flowEngine)) = {})
    => /\ result.value.nextStepId \in ExistingStepIds \cup {NoStep}
       /\ result.value.nextStepId = NoStep =>
            /\ result.index = Len(journey.steps)
            /\ TrueBranches = {}
            /\ ~(IsSuccessStatus(result.response.statusCode)
                   /\ CalledStep.onSuccess # NoStep)
            /\ ~(~IsSuccessStatus(result.response.statusCode)
                   /\ CalledStep.onFailure # NoStep)

\* C31 witness: calls on an error-free journey with a backward branch: one
\* on the last step that returns none, one elsewhere that returns a step
C31_Witness ==
  /\ result.op = "evaluateBranches"
  /\ ErrorIssues(validate(flowEngine)) = {}
  /\ DeclaredTargets # {}
  /\ result.index = Len(journey.steps)
  /\ Len(CalledStep.branches) > 0
  /\ result.value.nextStepId = NoStep

\* a branch whose goto is a step declared earlier than its own
HasBackwardBranch ==
  \E i \in 1..Len(journey.steps) : \E k \in 1..Len(journey.steps[i].branches) :
    \E e \in 1..(i - 1) : journey.steps[i].branches[k].goto = journey.steps[e].id

\* C7: enumeratePaths returns a finite list of paths, none longer than the
\* number of steps plus one, also over cyclic journeys; and when some branch
\* goes to an earlier step, at least one path has hasCycle = true.
C7_PathsFiniteAndCycleFlagged ==
  result.op = "enumeratePaths"
    => /\ \A p \in 1..Len(result.value) :
            Len(result.value[p].steps) <= Len(journey.steps) + 1
       /\ HasBackwardBranch => \E p \in 1..Len(result.value) : result.value[p].hasCycle

\* C7 witness: a journey with a backward branch and a path flagged as a cycle
C7_Witness ==
  /\ result.op = "enumeratePaths"
  /\ HasBackwardBranch
  /\ \E p \in 1..Len(result.value) :
       /\ result.value[p].hasCycle
       /\ Len(result.value[p].steps) = NumSteps + 1

\* the last step of a path occurs earlier in the path
EndsInRepeat(steps) == \E i \in 1..(Len(steps) - 1) : steps[i] = steps[Len(steps)]

\* C25: every path enumeratePaths returns has exactly one of isComplete and
\* hasCycle; hasCycle holds exactly when the last step occurs earlier in the
\* path, and no other step occurs twice; isComplete holds only when the last
\* step has no branches, no onSuccess, no onFailure and no step declared
\* after it.
C25_PathShape ==
  result.op = "enumeratePaths" =>
    \A p \in 1..Len(result.value) :
      LET path == result.value[p]
          steps == path.steps
          last == getStep(flowEngine, steps[Len(steps)])
      IN  /\ path.isComplete # path.hasCycle
          /\ path.hasCycle = EndsInRepeat(steps)
          /\ \A i \in 1..(Len(steps) - 1), k \in 1..(Len(steps) - 1) :
               steps[i] = steps[k] => i = k
          /\ path.isComplete =>
               /\ Len(last.branches) = 0
               /\ last.onSuccess = NoStep
               /\ last.onFailure = NoStep
               /\ getNextSequentialStep(flowEngine, last.id) = Undefined

\* a complete path and a path that returns to a step that is not its first
C25_Witness ==
  /\ result.op = "enumeratePaths"
  /\ \E p \in 1..Len(result.value) : result.value[p].isComplete
  /\ \E p \in 1..Len(result.value) :
       /\ result.value[p].hasCycle
       /\ result.value[p].steps[Len(result.value[p].steps)] # result.value[p].steps[1]


-----------------------------------------------------------------------------
(* SpecLoad: JourneyLoader.load on a journey file *)

\* journeys whose second step repeats the id of the first
DuplicateIdJourneys ==
  {[steps |-> [i \in 1..Len(j.steps) |->
                 IF i = 2 THEN [j.steps[i] EXCEPT !.id = j.steps[1].id]
                 ELSE j.steps[i]]] : j \in Journeys}

InitLoad ==
  /\ journey \in Journeys \cup DuplicateIdJourneys
  /\ flowEngine = Null
  /\ dataExtractor = Null
  /\ profileDistributor = Null
  /\ config = EmptyMap
  /\ context = EmptyMap
  /\ host = EmptyMap
  /\ delivered = <<>>
  /\ result = NoResult

\* the files load may be pointed at for the journey: missing, not JSON,
\* failing the schema, or a document the schema accepts
Documents ==
  {[exists |-> e, parses |-> p, schemaValid |-> v, journey |-> journey] :
     e \in BOOLEAN, p \in BOOLEAN, v \in BOOLEAN}

Load(doc, skipValidation) ==
  /\ result = NoResult
  /\ result' = [op |-> "load", doc |-> doc, skipValidation |-> skipValidation,
                value |-> load(doc, [skipValidation |-> skipValidation])]
  /\ UNCHANGED <<journey, flowEngine, dataExtractor, profileDistributor,
                 config, context, host, delivered>>

NextLoad == \E doc \in Documents, skipValidation \in BOOLEAN : Load(doc, skipValidation)

SpecLoad == InitLoad /\ [][NextLoad]_vars

StructureIssues == validate(FlowEngine(journey))

UniqueStepIds ==
  \A i, k \in 1..Len(journey.steps) :
    i # k => journey.steps[i].id # journey.steps[k].id

WarningIssues(issues) == {i \in 1..Len(issues) : issues[i].type = "warning"}

\* C32: for a journey whose step ids are unique, validate emits no
\* 'unreachable' warning: the sequential edges reach every step from the
\* first one.
C32_UniqueIdsAllReachable ==
  (result.op = "load" /\ UniqueStepIds) => WarningIssues(StructureIssues) = {}

\* C32 witness: validate has run on a journey with unique ids whose first
\* step jumps over the second and whose second step nothing points at
C32_Witness ==
  /\ result.op = "load"
  /\ result.value # Throws
  /\ UniqueStepIds
  /\ journey.steps[1].onSuccess = journey.steps[Len(journey.steps)].id
  /\ journey.steps[2].id \notin DeclaredTargets

\* a journey with a repeated step id, one of whose steps validate reports
\* unreachable
C32_DuplicateIdsUnreachable ==
  /\ result.op = "load"
  /\ ~UniqueStepIds
  /\ WarningIssues(StructureIssues) # {}

-----------------------------------------------------------------------------
(* Spec: virtual users running the generated flow through the hooks *)

\* the virtual users of one run
VUs == {"vu1", "vu2"}

RunSlots == {"branchA", "onSuccess"}

\* journeys that pass validate: every target is a declared step
RunJourneys == {JourneyOf(E) : E \in EdgeSets(RunSlots, StepIds)}

\* the responses a target may give
RunResponses ==
  {[statusCode |-> 200, headers |-> <<>>, body |-> JsNull],
   [statusCode |-> 404, headers |-> <<>>, body |-> JsNull],
   [statusCode |-> 200, headers |-> <<>>, body |-> Obj([code |-> Str(<<"M", "F", "A">>)])]}

\* Math.random() gives k / RandomGrid
RandomGrid == 10

\* what uuidv4(), Date.now(), Math.random() and the fake-data provider give
Envs ==
  [uuid : {Str(<<"u">>)}, now : {Num(0)}, randomValue : {Num(0)},
   fake : {Str(<<"f">>)},
   random : {Frac(k, RandomGrid) : k \in 0..(RandomGrid - 1)}]

\* setupUser draws from the environment only through getNextUser, which it
\* calls only when there is a distributor
EnvsFor(m) ==
  IF m.profileDistributor = Null THEN {CHOOSE env \in Envs : TRUE} ELSE Envs

\* buildConfig: config.variables of the generated script
buildConfig(j) == MapSet(EmptyMap, "__journey", j)

\* buildFlowForJourney: one guarded request per step, in declared order
buildFlowForJourney(j) == [i \in 1..Len(j.steps) |-> j.steps[i].id]

\* the flow of the scenario virtual user u runs
Flow(u) == buildFlowForJourney(host[u].scenario)

\* the step the engine is at in the flow of virtual user u
StepAt(u) == Flow(u)[host[u].pos]

\* the engine moves to the next item of the flow, or the flow is over
Advance(h) ==
  IF h.pos < Len(buildFlowForJourney(h.scenario))
  THEN [h EXCEPT !.pc = "guard", !.pos = @ + 1]
  ELSE [h EXCEPT !.pc = "done"]

Init ==
  /\ journey = Null
  /\ flowEngine = Null
  /\ dataExtractor = Null
  /\ profileDistributor = Null
  /\ config \in {buildConfig(j) : j \in RunJourneys}
  /\ context = [u \in VUs |-> config]
  /\ host = [u \in VUs |-> [pc |-> "guard", pos |-> 1, setupDone |-> FALSE,
                             scenario |-> config["__journey"]]]
  /\ result = NoResult
  /\ delivered = <<>>

\* one context.vars object for all virtual users
storeVars_shared(ctx, u, contextVars) == [v \in DOMAIN ctx |-> contextVars]

\* a hook writes the context.vars of the virtual user it was called for
storeVars(ctx, u, contextVars) == [ctx EXCEPT ![u] = contextVars]

SetModule(m) ==
  /\ journey' = m.journey
  /\ flowEngine' = m.flowEngine
  /\ dataExtractor' = m.dataExtractor
  /\ profileDistributor' = m.profileDistributor

\* beforeScenario: setupUser, once per virtual user, before its first request
SetupUser(u) ==
  /\ ~host[u].setupDone
  /\ host[u].pc \in {"guard", "request"}
  /\ \E env \in EnvsFor(ensureJourneyInitialized(ModuleState, context[u])) :
       LET r == setupUser(ModuleState, context[u], env)
       IN  /\ SetModule(r.module)
           /\ context' = storeVars(context, u, r.vars)
           /\ host' = [host EXCEPT ![u] =
                         IF r.threw THEN [@ EXCEPT !.pc = "failed"]
                         ELSE [@ EXCEPT !.setupDone = TRUE]]
  /\ UNCHANGED <<config, result, delivered>>

\* ifTrue: the guard of the step the engine is at
Guard(u) ==
  /\ host[u].pc = "guard"
  /\ host[u].setupDone \/ host[u].pos = 1
  /\ LET r == shouldExecuteStep(ModuleState, context[u], StepAt(u))
     IN  /\ SetModule(r.module)
         /\ context' = storeVars(context, u, r.vars)
         /\ host' = [host EXCEPT ![u] =
                       IF r.threw THEN [@ EXCEPT !.pc = "failed"]
                       ELSE IF r.value THEN [@ EXCEPT !.pc = "request"]
                       ELSE Advance(@)]
  /\ UNCHANGED <<config, result, delivered>>

BeforeRequest(u) ==
  /\ host[u].pc = "request"
  /\ host[u].setupDone
  /\ LET r == beforeRequest(ModuleState, context[u], StepAt(u))
     IN  /\ SetModule(r.module)
         /\ context' = storeVars(context, u, r.vars)
         /\ host' = [host EXCEPT ![u] =
                       IF r.threw THEN [@ EXCEPT !.pc = "failed"]
                       ELSE [@ EXCEPT !.pc = "inflight"]]
  /\ UNCHANGED <<config, result, delivered>>

AfterResponse(u, response) ==
  /\ host[u].pc = "inflight"
  /\ LET r == afterResponse(ModuleState, context[u], StepAt(u), response)
     IN  /\ context' = storeVars(context, u, r.vars)
         /\ host' = [host EXCEPT ![u] =
                       IF r.threw THEN [@ EXCEPT !.pc = "failed"]
                       ELSE Advance(@)]
  /\ UNCHANGED <<journey, flowEngine, dataExtractor, profileDistributor,
                 config, result, delivered>>

Next ==
  \/ \E u \in VUs : SetupUser(u)
  \/ \E u \in VUs : Guard(u)
  \/ \E u \in VUs : BeforeRequest(u)
  \/ \E u \in VUs, response \in RunResponses : AfterResponse(u, response)

Spec == Init /\ [][Next]_vars


-----------------------------------------------------------------------------
(* Claims about the guards and the run, under Spec *)

Executed(u) == ListVar(context[u], "__executedSteps")

NextStepOf(u) == StepVar(context[u], "__nextStep")

\* the guard as documented: the first step when nothing has executed, never a
\* step already executed, otherwise exactly the recorded next step
DocumentedGuard(stepId, executedSteps, nextStep, firstId) ==
  IF Len(executedSteps) = 0 THEN stepId = firstId
  ELSE IF Includes(executedSteps, stepId) THEN FALSE
  ELSE nextStep # NoStep /\ stepId = nextStep

\* C3: FlowEngine.shouldExecuteStep(stepId, state) is true for the first step
\* when nothing has executed, false for a step in state.executedSteps, and
\* otherwise true exactly for the recorded next step.  The code does not do
\* this: it never reads executedSteps and lets every step declared after the
\* expected one through.
C3_EngineGuardAsDocumented ==
  flowEngine # Null =>
    \A u \in VUs, stepId \in StepIds :
      LET state == FlowStateOf(StepVar(context[u], "__currentStepId"), context[u])
      IN  FlowEngine_shouldExecuteStep(flowEngine, stepId, state)
            = DocumentedGuard(stepId, state.executedSteps, NextStepOf(u),
                              flowEngine.stepOrder[1])

\* C4: with the journey initialized, the processor guard returns (stepId is
\* the first step) when __executedSteps is empty, false when stepId is in
\* __executedSteps, and otherwise true iff __nextStep is set and equals stepId.
C4_ProcessorGuard ==
  \A u \in VUs, stepId \in StepIds \cup {Ghost} :
    LET r == shouldExecuteStep(ModuleState, context[u], stepId)
    IN  r.module.journey # Null =>
          r.value = DocumentedGuard(stepId, Executed(u), NextStepOf(u),
                                    r.module.journey.steps[1].id)

\* a guard has let a later step through, and some user's next step is one it
\* has already executed
C4_Witness ==
  /\ \E u \in VUs : host[u].pc = "request" /\ host[u].pos > 1
  /\ \E u \in VUs : NextStepOf(u) # NoStep /\ Includes(Executed(u), NextStepOf(u))

\* C5: with every guard evaluated once in declared order, the step executed
\* after a decision T is T, so a flow that is over has no decision left that
\* was not followed.  The code drops a decision that points at the step
\* itself or at an earlier one.
C5_DecisionFollowed ==
  \A u \in VUs : host[u].pc = "done" => NextStepOf(u) = NoStep

NullModule ==
  [journey |-> Null, flowEngine |-> Null, dataExtractor |-> Null,
   profileDistributor |-> Null]

\* every context.vars a hook can leave for u, computed from u's own
\* context.vars, u's own journey and a response to u alone
OwnOutcomes(u) ==
  LET m == ensureJourneyInitialized(NullModule, context[u])
      setups == {setupUser(m, context[u], env).vars : env \in EnvsFor(m)}
  IN  CASE host[u].pc = "inflight" ->
             {afterResponse(m, context[u], StepAt(u), response).vars :
                response \in RunResponses}
        [] host[u].pc = "request" ->
             setups \cup {beforeRequest(m, context[u], StepAt(u)).vars}
        [] OTHER -> setups

\* C9: a hook run for one virtual user leaves the context.vars of every other
\* user untouched, and what it leaves for its own user is what that user
\* running alone would get from its own state and its own response.
C9_UsersIsolated ==
  [][\A u \in VUs :
       /\ host'[u] = host[u] => context'[u] = context[u]
       /\ context'[u] # context[u] => context'[u] \in OwnOutcomes(u)]_vars

\* two users, interleaved, have finished after executing different sequences
C9_Witness ==
  \E u, v \in VUs :
    /\ host[u].pc = "done" /\ host[v].pc = "done"
    /\ Len(Executed(u)) > 1 /\ Len(Executed(v)) > 0
    /\ Executed(u) # Executed(v)

\* the steps of executed are all different and in the order of the flow
StrictlyIncreasing(executed, flow) ==
  /\ \A i \in 1..Len(executed) : Includes(flow, executed[i])
  /\ \A i, k \in 1..Len(executed) :
       i < k => IndexOf(flow, executed[i]) < IndexOf(flow, executed[k])

\* the decision recorded for u names the step executed last or a step
\* declared before it
BackwardDecision(u) ==
  /\ Len(Executed(u)) > 0
  /\ Includes(Flow(u), NextStepOf(u))
  /\ IndexOf(Flow(u), NextStepOf(u))
       <= IndexOf(Flow(u), Executed(u)[Len(Executed(u))])

\* C29: with each guard evaluated once in declared order, __executedSteps
\* never holds a step twice and lists the steps in strictly increasing
\* declared order; once the recorded decision names the current step or an
\* earlier one, no request is let through and nothing more is executed.
C29_RunIsMonotone ==
  /\ [](\A u \in VUs : StrictlyIncreasing(Executed(u), Flow(u)))
  /\ [][\A u \in VUs :
          BackwardDecision(u) =>
            /\ ListVar(context'[u], "__executedSteps") = Executed(u)
            /\ host'[u].pc \notin {"request", "inflight"}]_vars

\* a user has executed two steps, the second decided to go back, and the
\* flow ended after the guard of a later step was evaluated
C29_Witness ==
  \E u \in VUs :
    /\ host[u].pc = "done"
    /\ Len(Executed(u)) = 2
    /\ BackwardDecision(u)
    /\ IndexOf(Flow(u), Executed(u)[2]) < Len(Flow(u))


-----------------------------------------------------------------------------
(* SpecDist: virtual users drawing from one ProfileDistributor *)

\* calls of getNextUser in one run
MaxDraws == 4

NoOptions == [start |-> Undefined, step |-> Undefined, method |-> ""]

Row(text) == MapSet(EmptyMap, "email", Str(<<text>>))

\* a Profile of part_003: name, weight, inline data, variables, generators
Profile(name, weight, data, generators) ==
  [name |-> name, weight |-> weight, data |-> data,
   variables |-> MapSet(EmptyMap, "tier", Str(<<name>>)),
   generators |-> generators]

SequenceGenerator ==
  [name |-> "orderId",
   generator |-> [type |-> "sequence",
                  options |-> [NoOptions EXCEPT !.start = Num(1000), !.step = Num(5)]]]

Sequence(name, start, step) ==
  [name |-> name,
   generator |-> [type |-> "sequence",
                  options |-> [NoOptions EXCEPT !.start = Num(start), !.step = Num(step)]]]

\* a generator of a type executeGenerator does not know
UnknownTypeGenerator ==
  [name |-> "token", generator |-> [type |-> "bogus", options |-> NoOptions]]

\* a faker generator whose method names no function of the provider
BrokenFakerGenerator ==
  [name |-> "nick",
   generator |-> [type |-> "faker",
                  options |-> [NoOptions EXCEPT !.method = "person"]]]

DistConfigs ==
  {[profiles |-> <<Profile("A", 70, Arr(<<Row("a"), Row("b")>>), <<SequenceGenerator>>),
                   Profile("B", 30, Arr(<<Row("c")>>), <<>>)>>],
   [profiles |-> <<Profile("A", 1, Arr(<<Row("a"), Row("b"), Row("c")>>), <<>>),
                   Profile("B", 1, Undefined, <<SequenceGenerator>>),
                   Profile("C", 0, Arr(<<Row("d")>>), <<>>)>>],
   [profiles |-> <<Profile("A", 50, Arr(<<Row("a"), Row("b")>>), <<BrokenFakerGenerator>>),
                   Profile("B", 50, Arr(<<Row("c"), Row("d")>>), <<>>)>>],
   [profiles |-> <<Profile("A", 1, Arr(<<Row("a"), Row("b")>>), <<UnknownTypeGenerator>>),
                   Profile("B", 3, Undefined, <<>>)>>],
   [profiles |-> <<Profile("a", 1, Undefined, <<Sequence("b:c", 1, 1)>>),
                   Profile("a:b", 1, Undefined, <<Sequence("c", 1000, 5)>>)>>]}

InitDist ==
  /\ journey = Null
  /\ flowEngine = Null
  /\ dataExtractor = Null
  /\ profileDistributor \in {loadData(ProfileDistributor(c)) : c \in DistConfigs}
  /\ config = EmptyMap
  /\ context = EmptyMap
  /\ host = EmptyMap
  /\ result = NoResult
  /\ delivered = <<>>

\* one call of getNextUser by virtual user u: the call is synchronous, so no
\* other call runs between its first and its last statement
GetNextUser(u, env) ==
  /\ Len(delivered) < MaxDraws
  /\ LET r == getNextUser(profileDistributor, env)
     IN  /\ profileDistributor' = r.d
         /\ delivered' = Append(delivered,
              [vu |-> u,
               selected |-> selectProfile(profileDistributor, env.random).profile.name,
               threw |-> r.threw,
               userContext |-> r.value])
  /\ UNCHANGED <<journey, flowEngine, dataExtractor, config, context, host, result>>

NextDist == \E u \in VUs, env \in Envs : GetNextUser(u, env)

SpecDist == InitDist /\ [][NextDist]_vars

\* the calls among the first k that selected profile name
DrawsOf(name, k) == {i \in 1..k : delivered[i].selected = name}

Completed == {i \in 1..Len(delivered) : ~delivered[i].threw}

\* C35: a call of getNextUser that throws leaves the row cursors, the
\* sequence counters and the stats of the distributor as they were before
\* the call.  The code advances the row cursor of the selected profile before
\* it runs the generators, so a throwing generator leaves it advanced.
C35_GetNextUserAtomic ==
  [][(Len(delivered') = Len(delivered) + 1 /\ delivered'[Len(delivered')].threw) =>
       /\ profileDistributor'.userIndexes = profileDistributor.userIndexes
       /\ profileDistributor'.sequenceCounters = profileDistributor.sequenceCounters
       /\ profileDistributor'.stats = profileDistributor.stats]_vars

\* C10: after N completed calls stats.totalUsers = N, and the j-th call that
\* selects profile P receives row (j-1) mod rows(P) of P, whichever virtual
\* users made the calls.
C10_NoLostUpdateNoRowOutOfTurn ==
  /\ profileDistributor.stats.totalUsers = Cardinality(Completed)
  /\ \A k \in Completed :
       LET name == delivered[k].selected
           rows == profileDistributor.userDataCache[name]
           j == Cardinality(DrawsOf(name, k))
       IN  /\ delivered[k].userContext.profileName = name
           /\ delivered[k].userContext.userData = rows[((j - 1) % Len(rows)) + 1]

\* both users have drawn from one profile, more often than it has rows
C10_Witness ==
  \E k \in Completed :
    LET name == delivered[k].selected
    IN  /\ Len(profileDistributor.userDataCache[name]) > 1
        /\ Cardinality(DrawsOf(name, k)) > Len(profileDistributor.userDataCache[name])
        /\ {delivered[i].vu : i \in DrawsOf(name, k)} = VUs


\* C11: for a profile with n >= 1 rows the k-th draw of it returns row
\* (k-1) mod n, wrapping to the first row after the last, and its cursor
\* counts its own draws only.
C11_RoundRobinRows ==
  \A name \in DOMAIN profileDistributor.userDataCache :
    LET rows == profileDistributor.userDataCache[name]
        draws == DrawsOf(name, Len(delivered))
    IN  Len(rows) >= 1 =>
          /\ profileDistributor.userIndexes[name] = Cardinality(draws)
          /\ \A k \in draws \cap Completed :
               delivered[k].userContext.userData
                 = rows[((Cardinality(DrawsOf(name, k)) - 1) % Len(rows)) + 1]

\* the draw after the last row of a profile returned its first row, with a
\* draw of another profile in between
C11_Witness ==
  \E k \in Completed :
    LET name == delivered[k].selected
        rows == profileDistributor.userDataCache[name]
    IN  /\ Len(rows) > 1
        /\ Cardinality(DrawsOf(name, k)) = Len(rows) + 1
        /\ delivered[k].userContext.userData = rows[1]
        /\ \E m \in 1..k : delivered[m].selected # name


\* the profile of the distributor's configuration that has this name
ProfileNamed(name) ==
  LET profiles == profileDistributor.config.profiles
  IN  profiles[CHOOSE i \in 1..Len(profiles) : profiles[i].name = name]

SequenceGeneratorsOf(profile) ==
  {i \in 1..Len(profile.generators) :
     profile.generators[i].generator.type = "sequence"}

\* C12: the i-th evaluation (i = 0, 1, ...) of the sequence generator of one
\* (profileName, generatorName) pair yields start + i * step, whatever other
\* pairs are evaluated in between.  The code keys the counter by the text
\* profileName:generatorName, which two different pairs can share.
C12_SequencesIndependent ==
  \A k \in Completed :
    LET profile == ProfileNamed(delivered[k].selected)
        i == Cardinality(DrawsOf(profile.name, k)) - 1
    IN  \A g \in SequenceGeneratorsOf(profile) :
          LET gen == profile.generators[g]
          IN  delivered[k].userContext.generatedValues[gen.name]
                = Num(gen.generator.options.start.v + i * gen.generator.options.step.v)

\* C15: a generator of unknown type or with an unresolvable faker method is
\* rejected when the distributor is constructed, so no getNextUser call on a
\* constructed distributor fails on a generator.  The constructor does not
\* look at the generators: the error comes from getNextUser.
C15_GeneratorsRejectedAtConstruction ==
  \A k \in 1..Len(delivered) : ~delivered[k].threw


-----------------------------------------------------------------------------
(* SpecSelect: constructing a distributor and selecting profiles *)

\* profiles in one configuration
MaxProfiles == 3

\* the largest weight of a profile
MaxWeight == 2

WeightVectors == UNION {[1..n -> 0..MaxWeight] : n \in 0..MaxProfiles}

\* a ProfileConfig whose profiles have these weights, in this order
WeightConfig(weights) ==
  [profiles |-> [i \in 1..Len(weights) |->
                   Profile("P" \o ToString(i), weights[i], Undefined, <<>>)]]

InitSelect ==
  /\ journey = Null
  /\ flowEngine = Null
  /\ dataExtractor = Null
  /\ profileDistributor = Null
  /\ config = EmptyMap
  /\ context = EmptyMap
  /\ host = EmptyMap
  /\ result = NoResult
  /\ delivered = <<>>

\* new ProfileDistributor(config)
Construct(weights) ==
  /\ result = NoResult
  /\ LET d == ProfileDistributor(WeightConfig(weights))
     IN  /\ result' = [op |-> "construct", config |-> WeightConfig(weights),
                       threw |-> d = Throws]
         /\ profileDistributor' = IF d = Throws THEN Null ELSE d
  /\ UNCHANGED <<journey, flowEngine, dataExtractor, config, context, host, delivered>>

\* selectProfile() with Math.random() = random
SelectProfile(random) ==
  /\ result.op = "construct"
  /\ profileDistributor # Null
  /\ result' = [op |-> "selectProfile", config |-> result.config,
                random |-> random,
                value |-> selectProfile(profileDistributor, random)]
  /\ UNCHANGED <<journey, flowEngine, dataExtractor, profileDistributor,
                 config, context, host, delivered>>

NextSelect ==
  \/ \E weights \in WeightVectors : Construct(weights)
  \/ \E k \in 0..(RandomGrid - 1) : SelectProfile(Frac(k, RandomGrid))

SpecSelect == InitSelect /\ [][NextSelect]_vars

RECURSIVE WeightUpTo(_, _)
\* the sum of the weights of the first i profiles
WeightUpTo(profiles, i) ==
  IF i = 0 THEN 0 ELSE WeightUpTo(profiles, i - 1) + profiles[i].weight

\* r <= (weight of the first i profiles) / (total weight)
AtMostCumulative(r, profiles, i) ==
  r.num * WeightUpTo(profiles, Len(profiles))
    <= WeightUpTo(profiles, i) * r.den

\* C34: a profile whose weight is 0 is never returned by selectProfile, for
\* every draw in [0,1), 0 included, and every position of the profile.  The
\* code returns a weight-0 profile declared first when the draw is exactly 0.
C34_ZeroWeightNeverSelected ==
  result.op = "selectProfile" => result.value.profile.weight # 0

C14_ZeroTotalWeightThrows ==
  /\ result.op = "construct" =>
       (result.threw <=>
          WeightUpTo(result.config.profiles, Len(result.config.profiles)) = 0)
  /\ profileDistributor # Null =>
       WeightUpTo(profileDistributor.config.profiles,
                  Len(profileDistributor.config.profiles)) # 0

\* construction has thrown for an empty profile list
C14_Witness ==
  /\ result.op = "construct"
  /\ result.threw
  /\ Len(result.config.profiles) = 0
  /\ profileDistributor = Null

-----------------------------------------------------------------------------
(* SpecResponse: the pure functions of one response, each called once *)

MaxExtractions == 2

\* the responses: no header, a header named in capitals, one in lower case
StepResponses ==
  {[statusCode |-> 200, headers |-> h, body |-> b] :
     h \in {EmptyMap, MapSet(EmptyMap, <<"X", "-", "A">>, Str(<<"v">>)),
            MapSet(EmptyMap, <<"x", "-", "a">>, Str(<<"v">>))},
     b \in {JsNull, Obj([code |-> Str(<<"M", "F", "A">>)]), Str(<<"{", "}">>),
            Str(<<"M", "F", "A">>)}}

\* an Extraction; "" stands for an absent type or transform
Extraction(type, path, as, default, transform) ==
  [type |-> type, path |-> path, as |-> as, default |-> default,
   transform |-> transform]

\* the extractions given to extract; "xml" is a type the switch does not know
Extractions ==
  {Extraction(tp[1], tp[2], "a", default, transform) :
     tp \in {<<"", <<"code">>>>, <<"jsonpath", <<"code">>>>,
             <<"jsonpath", <<"none">>>>, <<"header", <<"x", "-", "a">>>>,
             <<"header", <<"X", "-", "B">>>>, <<"regex", <<"M", "F">>>>,
             <<"regex", <<"(">>>>, <<"regex", <<"Z">>>>,
             <<"regex", <<"F", "|", "1">>>>, <<"status", <<>>>>,
             <<"xml", <<>>>>},
     default \in {Undefined, JsNull, Str(<<"d">>)},
     transform \in {"", "value.code", "!value", "("}}

\* the extractions of the lists given to extractAll
ListExtractions ==
  {Extraction(tp[1], tp[2], as, default, transform) :
     tp \in {<<"jsonpath", <<"code">>>>, <<"regex", <<"(">>>>},
     as \in {"a", "b"}, default \in {Undefined, Str(<<"d">>)},
     transform \in {"", "value.code", "("}}

RECURSIVE ExtractionLists(_)
\* the lists of at most n extractions
ExtractionLists(n) ==
  IF n = 0 THEN {<<>>}
  ELSE LET shorter == ExtractionLists(n - 1)
       IN  shorter \cup {Append(l, e) : l \in shorter, e \in ListExtractions}

MaxOperators == 2

\* the operator keys in the order evaluateOperator tests them
OperatorKeys ==
  <<"eq", "ne", "gt", "gte", "lt", "lte", "contains", "matches", "exists", "in">>

\* the operand each operator key carries in the conditions of the model
Operand ==
  [eq |-> Num(1), ne |-> Num(1), gt |-> Num(1), gte |-> Num(2), lt |-> Num(2),
   lte |-> Num(0), contains |-> Str(<<"F">>), matches |-> Str(<<"^", "M">>),
   exists |-> Bool(FALSE), in |-> Arr(<<Num(2), JsNull>>)]

\* the conditions that carry at most MaxOperators operator keys
OperatorConditions ==
  {[k \in DOMAIN NoCondition |-> IF k \in keys THEN Operand[k] ELSE Undefined] :
     keys \in {ks \in SUBSET {OperatorKeys[i] : i \in 1..Len(OperatorKeys)} :
                 Cardinality(ks) <= MaxOperators}}

\* the conditions on a header, named in either case
HeaderConditions ==
  {[c EXCEPT !.header = Str(name)] :
     c \in {[NoCondition EXCEPT !.eq = Str(<<"v">>)],
            [NoCondition EXCEPT !.exists = Bool(TRUE)],
            [NoCondition EXCEPT !.ne = Str(<<"v">>)]},
     name \in {<<"x", "-", "a">>, <<"X", "-", "A">>, <<"X", "-", "a">>, <<"m">>}}

\* the conditions on the field code of the body; ( is not a pattern
FieldConditions ==
  {[c EXCEPT !.field = Str(<<"code">>)] :
     c \in {[NoCondition EXCEPT !.eq = Str(<<"M", "F", "A">>)],
            [NoCondition EXCEPT !.exists = Bool(FALSE)],
            [NoCondition EXCEPT !.gt = Num(1)],
            [NoCondition EXCEPT !.contains = Str(<<"F">>)],
            [NoCondition EXCEPT !.matches = Str(<<"(">>)],
            [NoCondition EXCEPT !.matches = Str(<<"^", "M">>)]}}

\* the inputs a call can still be made with: none once the call is made
Pending(inputs) == IF result = NoResult THEN inputs ELSE {}

InitResponse ==
  /\ journey = Null
  /\ flowEngine = Null
  /\ dataExtractor = DataExtractor
  /\ profileDistributor = Null
  /\ config = EmptyMap
  /\ context = EmptyMap
  /\ host = EmptyMap
  /\ result = NoResult
  /\ delivered = <<>>

\* dataExtractor.extract(extraction, response)
Extract(extraction, response) ==
  /\ result = NoResult
  /\ result' = [op |-> "extract", extraction |-> extraction,
                response |-> response,
                value |-> extract(extraction, response)]
  /\ UNCHANGED <<journey, flowEngine, dataExtractor, profileDistributor,
                 config, context, host, delivered>>

\* dataExtractor.extractAll(extractions, response)
ExtractAll(extractions, response) ==
  /\ result = NoResult
  /\ result' = [op |-> "extractAll", extractions |-> extractions,
                response |-> response,
                value |-> extractAll(extractions, response)]
  /\ UNCHANGED <<journey, flowEngine, dataExtractor, profileDistributor,
                 config, context, host, delivered>>

\* flowEngine.evaluateCondition(condition, response, state)
EvaluateCondition(condition, response) ==
  /\ result = NoResult
  /\ result' = [op |-> "evaluateCondition", condition |-> condition,
                response |-> response,
                value |-> evaluateCondition(condition, response, EmptyMap)]
  /\ UNCHANGED <<journey, flowEngine, dataExtractor, profileDistributor,
                 config, context, host, delivered>>

\* evaluateOperator(condition, value), the private step of evaluateCondition
EvaluateOperator(condition, value) ==
  /\ result = NoResult
  /\ result' = [op |-> "evaluateOperator", condition |-> condition,
                operand |-> value,
                value |-> evaluateOperator(condition, value)]
  /\ UNCHANGED <<journey, flowEngine, dataExtractor, profileDistributor,
                 config, context, host, delivered>>

NextResponse ==
  \/ \E e \in Pending(Extractions), r \in StepResponses : Extract(e, r)
  \/ \E l \in Pending(ExtractionLists(MaxExtractions)),
        r \in {x \in StepResponses :
                 x.headers = EmptyMap /\ x.body.t \in {"null", "object"}} :
       ExtractAll(l, r)
  \/ \E c \in Pending(HeaderConditions \cup FieldConditions), r \in StepResponses :
       EvaluateCondition(c, r)
  \/ \E c \in Pending(OperatorConditions),
        v \in {Undefined, JsNull, Num(1), Num(2), Str(<<"M", "F", "A">>)} :
       EvaluateOperator(c, v)

SpecResponse == InitResponse /\ [][NextResponse]_vars

\* two JavaScript values are the same value
SameValue(a, b) == a.t = b.t /\ a = b

\* two ExtractionResults are the same result
SameResult(a, b) ==
  /\ a.success = b.success
  /\ a.error = b.error
  /\ SameValue(a.value, b.value)

\* two variable maps bind the same names to the same values
SameVariables(m1, m2) ==
  /\ DOMAIN m1 = DOMAIN m2
  /\ \A name \in DOMAIN m1 : SameValue(m1[name], m2[name])

\* the extractions of a list that bind the name
OnlyAs(extractions, name) == SelectSeq(extractions, LAMBDA e : e.as = name)

\* the names a list binds
NamesOf(extractions) == {extractions[i].as : i \in 1..Len(extractions)}

\* C17: extractAll returns (it never throws), and it handles its extractions
\* one by one: an extraction that succeeded binds variables[as] to its value
\* and adds no message; one that failed and has no default adds exactly one
\* message and binds nothing; and what the list does to one name is what the
\* extractions of that name alone would do, whatever the others did.
C17_ExtractionsIndependent ==
  result.op = "extractAll" =>
    LET list == result.extractions
        response == result.response
    IN  /\ result.value # Throws
        /\ \A i \in 1..Len(list) :
             LET before == extractAll(SubSeq(list, 1, i - 1), response)
                 after == extractAll(SubSeq(list, 1, i), response)
                 r == extract(list[i], response)
             IN  /\ r.success =>
                      /\ SameVariables(after.variables,
                                       MapSet(before.variables, list[i].as, r.value))
                      /\ after.errors = before.errors
                 /\ (~r.success /\ list[i].default = Undefined) =>
                      /\ SameVariables(after.variables, before.variables)
                      /\ Len(after.errors) = Len(before.errors) + 1
                      /\ SubSeq(after.errors, 1, Len(before.errors)) = before.errors
                      /\ after.errors[Len(after.errors)].as = list[i].as
        /\ \A name \in NamesOf(list) :
             LET alone == extractAll(OnlyAs(list, name), response)
             IN  /\ (name \in DOMAIN result.value.variables)
                      = (name \in DOMAIN alone.variables)
                 /\ name \in DOMAIN alone.variables =>
                      SameValue(result.value.variables[name], alone.variables[name])
                 /\ SelectSeq(result.value.errors, LAMBDA m : m.as = name)
                      = alone.errors

\* a list whose first extraction failed without a default and whose second,
\* of another name, succeeded
C17_Witness ==
  /\ result.op = "extractAll"
  /\ Len(result.extractions) = 2
  /\ result.extractions[1].as # result.extractions[2].as
  /\ ~extract(result.extractions[1], result.response).success
  /\ result.extractions[1].default = Undefined
  /\ extract(result.extractions[2], result.response).success
  /\ Len(result.value.errors) = 1
  /\ DOMAIN result.value.variables = {result.extractions[2].as}

\* what the i-th extraction of the list held in result did: the variables
\* and errors before and after it, and what extract returns for it
StepOfList(i) ==
  [before |-> extractAll(SubSeq(result.extractions, 1, i - 1), result.response),
   after |-> extractAll(SubSeq(result.extractions, 1, i), result.response),
   extraction |-> result.extractions[i],
   r |-> extract(result.extractions[i], result.response)]

Binds(s, value) ==
  /\ SameVariables(s.after.variables,
                   MapSet(s.before.variables, s.extraction.as, value))
  /\ s.after.errors = s.before.errors

RecordsError(s) ==
  /\ SameVariables(s.after.variables, s.before.variables)
  /\ s.after.errors
       = Append(s.before.errors, [as |-> s.extraction.as, error |-> s.r.error])

\* C33 as stated: extractAll binds variables[as] if and only if extract
\* succeeds, to the value of that result, and records an error if and only
\* if extract fails.
C33_BindsIffExtractSucceeds ==
  result.op = "extractAll" =>
    \A i \in 1..Len(result.extractions) :
      LET s == StepOfList(i)
      IN  IF s.r.success THEN Binds(s, s.r.value) ELSE RecordsError(s)

\* C33: extractAll binds variables[as] to the value of extract's result when
\* extract succeeds; when extract fails and the extraction has a default (its
\* transform threw) it binds the default itself and records no error; when
\* extract fails and there is no default it binds nothing and records one
\* error.
C33_BindsResultOrDefault ==
  result.op = "extractAll" =>
    \A i \in 1..Len(result.extractions) :
      LET s == StepOfList(i)
      IN  IF s.r.success THEN Binds(s, s.r.value)
          ELSE IF s.extraction.default # Undefined
          THEN Binds(s, s.extraction.default)
          ELSE RecordsError(s)

\* a list of one extraction with a default whose transform throws: extract
\* fails, the default is bound and no error is recorded
C33_Witness ==
  /\ result.op = "extractAll"
  /\ Len(result.extractions) = 1
  /\ result.extractions[1].default # Undefined
  /\ ~extract(result.extractions[1], result.response).success
  /\ DOMAIN result.value.variables = {result.extractions[1].as}
  /\ result.value.errors = <<>>

\* C18: extract post-processes in this order: a failed typed extraction with
\* a default becomes a success holding the default; then a success with a
\* transform becomes the result of the transform on its value, the default
\* included; a transform that throws gives a failure, never an exception;
\* with neither, the typed result is returned as it is.
C18_DefaultThenTransform ==
  result.op = "extract" =>
    LET e == result.extraction
        typed == extractByType(e, result.response)
        defaulted == ~typed.success /\ e.default # Undefined
        input == IF defaulted THEN e.default ELSE typed.value
    IN  /\ result.value # Throws
        /\ (defaulted /\ e.transform = "") =>
             SameResult(result.value, Success(e.default))
        /\ ((typed.success \/ defaulted) /\ e.transform # "") =>
             /\ SameResult(result.value, applyTransform(input, e.transform))
             /\ result.value.success \/ result.value.error = "Transform failed"
        /\ (~typed.success /\ ~defaulted) => SameResult(result.value, typed)
        /\ (typed.success /\ e.transform = "") => SameResult(result.value, typed)

\* a typed extraction failed, the default took its place and the transform
\* changed the default
C18_Witness ==
  /\ result.op = "extract"
  /\ ~extractByType(result.extraction, result.response).success
  /\ result.extraction.default # Undefined
  /\ result.extraction.transform # ""
  /\ result.value.success
  /\ ~SameValue(result.value.value, result.extraction.default)

\* C19: a header condition looks the header up without regard to letter
\* case: whenever the response carries a header whose name differs from the
\* condition's header name only in letter case, the outcome is the operator
\* applied to that header's value.
C19_HeaderLookupIgnoresCase ==
  (result.op = "evaluateCondition" /\ Truthy(result.condition.header)) =>
    \A name \in DOMAIN result.response.headers :
      ToLowerCase(name) = ToLowerCase(result.condition.header.v) =>
        result.value = evaluateOperator(result.condition, result.response.headers[name])

\* the operator keys a condition carries
PresentKeys(condition) ==
  {i \in 1..Len(OperatorKeys) : condition[OperatorKeys[i]] # Undefined}

\* the condition with every operator key but the i-th removed
OnlyKey(condition, i) ==
  [k \in DOMAIN condition |->
     IF k \in {OperatorKeys[n] : n \in 1..Len(OperatorKeys)} /\ k # OperatorKeys[i]
     THEN Undefined ELSE condition[k]]

\* C20: of the operator keys a condition carries, the first in the order eq,
\* ne, gt, gte, lt, lte, contains, matches, exists, in decides alone: the
\* outcome is that of the condition with every other operator key removed;
\* a condition with no operator key is false.
C20_FirstOperatorDecides ==
  result.op = "evaluateOperator" =>
    LET present == PresentKeys(result.condition)
    IN  IF present = {} THEN result.value = FALSE
        ELSE LET first == CHOOSE i \in present : \A k \in present : i <= k
             IN  result.value
                   = evaluateOperator(OnlyKey(result.condition, first), result.operand)

\* a condition with two operator keys that disagree on the value: the first
\* holds, the later one alone would not
C20_Witness ==
  /\ result.op = "evaluateOperator"
  /\ Cardinality(PresentKeys(result.condition)) = 2
  /\ result.value
  /\ \E i \in PresentKeys(result.condition) :
       ~evaluateOperator(OnlyKey(result.condition, i), result.operand)

\* the operator key that decides a condition, "" when it carries none
DecidingKey(condition) ==
  IF PresentKeys(condition) = {} THEN ""
  ELSE OperatorKeys[CHOOSE i \in PresentKeys(condition) :
                      \A k \in PresentKeys(condition) : i <= k]

\* what the documented rules make of a value that cannot be compared: FALSE
\* for an order comparison of a non-number, for contains or matches of a
\* non-string and for a pattern that does not compile
Incomparable(condition, value) ==
  \/ DecidingKey(condition) \in {"gt", "gte", "lt", "lte"} /\ value.t # "number"
  \/ DecidingKey(condition) \in {"contains", "matches"} /\ value.t # "string"
  \/ DecidingKey(condition) = "matches" /\ ~RegExpValid(condition.matches.v)

\* C21: evaluateCondition and its operator step return a boolean and never
\* throw: an order comparison of a non-number, contains or matches of a
\* non-string, and matches with a pattern that does not compile are false;
\* a field condition on a body that is null or is not JSON is decided as
\* for an absent value.
C21_ConditionNeverThrows ==
  /\ result.op = "evaluateOperator" =>
       /\ result.value \in BOOLEAN
       /\ Incomparable(result.condition, result.operand) => ~result.value
  /\ (result.op = "evaluateCondition" /\ Truthy(result.condition.field)) =>
       LET body == result.response.body
           absent == \/ body.t = "null"
                     \/ body.t = "string" /\ JSONParse(body.v) = Throws
           value == IF absent \/ body.t = "string" THEN Undefined
                    ELSE Get(body.v, "code")
       IN  /\ result.value \in BOOLEAN
           /\ absent => result.value = evaluateOperator(result.condition, Undefined)
           /\ Incomparable(result.condition, value) => ~result.value

\* a field of the body holds a string and the condition's pattern does not
\* compile
C21_Witness ==
  /\ result.op = "evaluateCondition"
  /\ Truthy(result.condition.field)
  /\ result.response.body.t = "object"
  /\ result.condition.matches # Undefined
  /\ ~RegExpValid(result.condition.matches.v)
  /\ ~result.value

-----------------------------------------------------------------------------
(* SpecProfile: one virtual user running the scenario of a profile that has *)
(* its own journey                                                          *)

\* the steps of a journey in the opposite order
Reversed(j) ==
  [steps |-> [i \in 1..Len(j.steps) |-> j.steps[Len(j.steps) + 1 - i]]]

\* the default journey given to the script generator
DefaultJourneys == {JourneyOf(E) : E \in EdgeSets({"onSuccess"}, StepIds)}

\* the journey of the profile: the default steps in another order, the same
\* steps with a transition of their own, or the plain sequence
ProfileJourneys ==
  {Reversed(JourneyOf({})), JourneyOf({}),
   JourneyOf({[step |-> 1, slot |-> "onSuccess", target |-> StepIdOf(NumSteps)]})}

\* the profiles file: one profile, which names its own journey
ProfileRunConfig == [profiles |-> <<Profile("P", 1, Arr(<<Row("a")>>), <<>>)>>]

\* the generated script: config.variables hold the default journey and the
\* profiles; the scenario of the profile is built from the profile's journey
InitProfile ==
  /\ journey = Null
  /\ flowEngine = Null
  /\ dataExtractor = Null
  /\ profileDistributor = Null
  /\ config \in {MapSet(buildConfig(j), "__profiles", ProfileRunConfig) :
                   j \in DefaultJourneys}
  /\ context = [u \in VUs |-> config]
  /\ host \in {[u \in VUs |-> [pc |-> "guard", pos |-> 1, setupDone |-> FALSE,
                               scenario |-> jp]] : jp \in ProfileJourneys}
  /\ result = NoResult
  /\ delivered = <<>>

\* the virtual user that arrives
Arrived == CHOOSE u \in VUs : TRUE

NextProfile ==
  \/ SetupUser(Arrived)
  \/ Guard(Arrived)
  \/ BeforeRequest(Arrived)
  \/ \E response \in RunResponses : AfterResponse(Arrived, response)

SpecProfile == InitProfile /\ [][NextProfile]_vars

\* the engine of the journey the scenario of virtual user u was built from
ScenarioEngine(u) == FlowEngine(host[u].scenario)

\* C22: a virtual user of a profile with its own journey runs that journey:
\* once its flow is over, the first step of the profile's journey is the
\* first step it executed, and a recorded next-step decision is always a
\* transition the profile's journey declares for the step executed last.
C22_ProfileJourneyRuns ==
  LET u == Arrived
      executed == Executed(u)
  IN  /\ host[u].pc = "done" =>
           /\ Len(executed) > 0
           /\ executed[1] = host[u].scenario.steps[1].id
      /\ (Len(executed) > 0 /\ NextStepOf(u) # NoStep) =>
           Includes(NextTargets(ScenarioEngine(u),
                                getStep(ScenarioEngine(u), executed[Len(executed)])),
                    NextStepOf(u))

-----------------------------------------------------------------------------
(* SpecStats: getNextUser and reset on one ProfileDistributor *)

\* distributor.reset(); delivered keeps the calls made since
Reset ==
  /\ profileDistributor' = reset(profileDistributor)
  /\ delivered' = <<>>
  /\ result' = [op |-> "reset"]
  /\ UNCHANGED <<journey, flowEngine, dataExtractor, config, context, host>>

NextStats ==
  \/ \E u \in VUs, env \in Envs : GetNextUser(u, env)
  \/ Reset

SpecStats == InitDist /\ [][NextStats]_vars

RECURSIVE SumCounts(_, _)
\* the sum of the counts of the names
SumCounts(counts, names) ==
  IF names = {} THEN 0
  ELSE LET n == CHOOSE x \in names : TRUE
       IN  counts[n] + SumCounts(counts, names \ {n})

-----------------------------------------------------------------------------
(* SpecPure: evaluateBranches and evaluateCondition called repeatedly on   *)
(* an engine and a flow state the caller owns                              *)

MaxCalls == 2

\* journeys whose first step branches on the status and on the body
PureJourneys ==
  {JourneyOf({})} \cup
  {JourneyOf({[step |-> 1, slot |-> "branchA", target |-> t],
              [step |-> 1, slot |-> "branchB", target |-> StepIdOf(1)]}) :
     t \in StepIds}

\* context holds the caller's FlowState, delivered the calls made so far
InitPure ==
  /\ journey \in PureJourneys
  /\ flowEngine = FlowEngine(journey)
  /\ dataExtractor = Null
  /\ profileDistributor = Null
  /\ config = EmptyMap
  /\ context \in {FlowStateOf(StepIdOf(1), FreshVars),
                  FlowStateOf(StepIdOf(2),
                              MapSet(FreshVars, "__executedSteps", <<StepIdOf(1)>>))}
  /\ host = EmptyMap
  /\ result = NoResult
  /\ delivered = <<>>

\* flowEngine.evaluateBranches(journey.steps[i], response, state)
CallEvaluateBranches(i, response) ==
  /\ Len(delivered) < MaxCalls
  /\ LET r == evaluateBranchesCall(flowEngine, journey.steps[i], response, context)
     IN  /\ flowEngine' = r.engine
         /\ journey' = [journey EXCEPT !.steps[i] = r.step]
         /\ context' = r.state
         /\ delivered' = Append(delivered,
              [op |-> "evaluateBranches", arg |-> journey.steps[i].id,
               given |-> response, response |-> r.response, value |-> r.value])
  /\ UNCHANGED <<dataExtractor, profileDistributor, config, host, result>>

\* flowEngine.evaluateCondition(condition, response, state)
CallEvaluateCondition(condition, response) ==
  /\ Len(delivered) < MaxCalls
  /\ LET r == evaluateConditionCall(flowEngine, condition, response, context)
     IN  /\ flowEngine' = r.engine
         /\ context' = r.state
         /\ delivered' = Append(delivered,
              [op |-> "evaluateCondition", arg |-> r.condition,
               given |-> response, response |-> r.response, value |-> r.value])
  /\ UNCHANGED <<journey, dataExtractor, profileDistributor, config, host, result>>

NextPure ==
  \/ \E i \in 1..NumSteps, response \in RunResponses : CallEvaluateBranches(i, response)
  \/ \E condition \in {ConditionA, ConditionB}, response \in RunResponses :
       CallEvaluateCondition(condition, response)

SpecPure == InitPure /\ [][NextPure]_vars

-----------------------------------------------------------------------------
(* SpecMarkers: a value escaped by the script generator and unescaped by   *)
(* the processor                                                           *)

MaxPieces == 2

\* the pieces the strings of the model are put together from: braces, a
\* letter, a marker and the beginning of a marker
Pieces ==
  {<<"{", "{">>, <<"}", "}">>, <<"{">>, <<"a">>,
   MarkerText(TEMPLATE_OPEN_MARKER),
   SubSeq(MarkerText(TEMPLATE_CLOSE_MARKER), 1, 18)}

RECURSIVE TextsUpTo(_)
TextsUpTo(n) ==
  IF n = 0 THEN {<<>>}
  ELSE LET shorter == TextsUpTo(n - 1)
       IN  shorter \cup {t \o piece : t \in shorter, piece \in Pieces}

\* a string on its own, in an array, in an object and in an object of an
\* object, as the url of a request is in a journey
ValuesOf(text) ==
  {Str(text), Arr(<<Str(text), JsNull>>), Obj([url |-> Str(text)]),
   Obj([request |-> Obj([url |-> Str(text)]), weight |-> Num(1)])}

\* buildConfig: escapeTemplateMarkers(this.journey)
Escape(x) ==
  /\ result = NoResult
  /\ result' = [op |-> "escape", input |-> x, value |-> escapeTemplateMarkers(x)]
  /\ UNCHANGED <<journey, flowEngine, dataExtractor, profileDistributor,
                 config, context, host, delivered>>

\* ensureJourneyInitialized: unescapeTemplateMarkers(context.vars.__journey)
Unescape ==
  /\ result.op = "escape"
  /\ result' = [op |-> "unescape", input |-> result.input,
                escaped |-> result.value, value |-> unescapeMarkers(result.value)]
  /\ UNCHANGED <<journey, flowEngine, dataExtractor, profileDistributor,
                 config, context, host, delivered>>

NextMarkers ==
  \/ \E text \in Pending(TextsUpTo(MaxPieces)) : \E x \in ValuesOf(text) : Escape(x)
  \/ Unescape

SpecMarkers == InitSelect /\ [][NextMarkers]_vars

\* C27: unescapeTemplateMarkers(escapeTemplateMarkers(x)) = x for every value
\* x, so the processor reconstructs the journey the generator was given.
C27_MarkerRoundTrip ==
  result.op = "unescape" => result.value = result.input

-----------------------------------------------------------------------------
(* SpecInterpolation: the interpolation context of a virtual user whose    *)
(* context.vars the hooks, the extractions and the script have written     *)

\* keys of context.vars: internal ones, ordinary ones, one with a single
\* underscore and the names of two built-ins
VarKeys == {"__journey", "__nextStep", "_csrf", "token", "$uuid", "$timestamp"}

VarValues == {"v1", "v2"}

\* what the generators return in one call
FreshBuiltIns ==
  {[uuid |-> "uuid-1", timestamp |-> "t1", isoTimestamp |-> "iso-1"],
   [uuid |-> "uuid-2", timestamp |-> "t2", isoTimestamp |-> "iso-2"]}

InitInterpolation ==
  /\ journey = Null
  /\ flowEngine = Null
  /\ dataExtractor = Null
  /\ profileDistributor = Null
  /\ config = EmptyMap
  /\ context = [u \in VUs |-> EmptyMap]
  /\ host = EmptyMap
  /\ result = NoResult
  /\ delivered = <<>>

\* context.vars[key] = value, by a hook, an extraction or the script
SetVar(u, key, value) ==
  /\ result = NoResult
  /\ key \notin DOMAIN context[u]
  /\ context' = storeVars(context, u, MapSet(context[u], key, value))
  /\ UNCHANGED <<journey, flowEngine, dataExtractor, profileDistributor,
                 config, host, result, delivered>>

\* beforeRequest builds the interpolation context of virtual user u
BuildInterpolationContext(u, fresh) ==
  /\ result = NoResult
  /\ result' = [op |-> "buildInterpolationContext", user |-> u, fresh |-> fresh,
                value |-> buildInterpolationContext(context[u], fresh)]
  /\ UNCHANGED <<journey, flowEngine, dataExtractor, profileDistributor,
                 config, context, host, delivered>>

NextInterpolation ==
  \/ \E key \in Pending(VarKeys), value \in VarValues : SetVar(Arrived, key, value)
  \/ \E fresh \in Pending(FreshBuiltIns) : BuildInterpolationContext(Arrived, fresh)

SpecInterpolation == InitInterpolation /\ [][NextInterpolation]_vars

BuiltInKeys == {"$uuid", "$timestamp", "$isoTimestamp"}

\* C28: the interpolation context has no key that starts with "__", has
\* every other key of context.vars with its current value, except the three
\* built-ins, and the built-ins hold the values generated in this call.
C28_InterpolationContext ==
  result.op = "buildInterpolationContext" =>
    LET contextVars == context[result.user]
        built == result.value
    IN  /\ \A key \in DOMAIN built : ~startsWith(key, <<"_", "_">>)
        /\ \A key \in DOMAIN contextVars :
             (~startsWith(key, <<"_", "_">>) /\ key \notin BuiltInKeys) =>
               (key \in DOMAIN built /\ built[key] = contextVars[key])
        /\ BuiltInKeys \subseteq DOMAIN built
        /\ built["$uuid"] = result.fresh.uuid
        /\ built["$timestamp"] = result.fresh.timestamp
        /\ built["$isoTimestamp"] = result.fresh.isoTimestamp

\* a context built from vars with an internal key, an ordinary key, a key
\* with one underscore and a variable named like a built-in
C28_Witness ==
  /\ result.op = "buildInterpolationContext"
  /\ {"__nextStep", "_csrf", "token", "$uuid"} \subseteq DOMAIN context[result.user]
  /\ "_csrf" \in DOMAIN result.value
  /\ result.value["$uuid"] # context[result.user]["$uuid"]

-----------------------------------------------------------------------------
(* SpecNoResponse: the run of one virtual user, one of whose requests may  *)
(* get no HTTP response                                                    *)

\* the request of the step u is at got no response: afterResponse is not
\* called, and the engine goes on to the guard of the next step
NoResponse(u) ==
  /\ host[u].pc = "inflight"
  /\ result = NoResult
  /\ result' = [op |-> "noResponse", user |-> u, stepId |-> StepAt(u)]
  /\ host' = [host EXCEPT ![u] = Advance(@)]
  /\ UNCHANGED <<journey, flowEngine, dataExtractor, profileDistributor,
                 config, context, delivered>>

NextNoResponse ==
  \/ SetupUser(Arrived)
  \/ Guard(Arrived)
  \/ BeforeRequest(Arrived)
  \/ \E response \in RunResponses : AfterResponse(Arrived, response)
  \/ NoResponse(Arrived)

SpecNoResponse == Init /\ [][NextNoResponse]_vars

\* the step taken is afterResponse for the request of u
Answered(u) == host[u].pc = "inflight" /\ host'[u] # host[u] /\ result' = result

\* C30: from the moment a guard lets a step through, __executedSteps and
\* __nextStep change only when afterResponse is called for it; if the request
\* gets no response they stay as they are, the guard of every later step
\* returns false and the user sends no further request.
C30_NoResponseStopsUser ==
  [][\A u \in VUs :
       /\ (host[u].pc \in {"request", "inflight"} /\ ~Answered(u)) =>
            /\ ListVar(context'[u], "__executedSteps") = Executed(u)
            /\ StepVar(context'[u], "__nextStep") = NextStepOf(u)
       /\ (result.op = "noResponse" /\ result.user = u) =>
            /\ ListVar(context'[u], "__executedSteps") = Executed(u)
            /\ StepVar(context'[u], "__nextStep") = NextStepOf(u)
            /\ host'[u].pc \notin {"request", "inflight"}
            /\ \A i \in (IndexOf(Flow(u), result.stepId) + 1)..Len(Flow(u)) :
                 ~shouldExecuteStep(ModuleState, context[u], Flow(u)[i]).value]_vars

\* a step after the first got no response, and the guards of the steps after
\* it have all been evaluated
C30_Witness ==
  /\ result.op = "noResponse"
  /\ host[result.user].pc = "done"
  /\ Len(Executed(result.user)) > 0
  /\ NextStepOf(result.user) = result.stepId
  /\ IndexOf(Flow(result.user), result.stepId) < Len(Flow(result.user))

-----------------------------------------------------------------------------
(* SpecSnapshot: a caller keeps what getStats returned while the           *)
(* distributor goes on drawing and is reset                                *)

\* const snapshot = distributor.getStats(); host holds the snapshot and, for
\* comparison, the values of the stats at the time of the call
GetStats ==
  /\ host = EmptyMap
  /\ host' = [snapshot |-> getStats(profileDistributor),
              atCall |-> profileDistributor.stats]
  /\ UNCHANGED <<journey, flowEngine, dataExtractor, profileDistributor,
                 config, context, result, delivered>>

NextSnapshot ==
  \/ \E u \in VUs, env \in Envs : GetNextUser(u, env)
  \/ Reset
  \/ GetStats

SpecSnapshot == InitDist /\ [][NextSnapshot]_vars

\* C36: an object returned by getStats is unaffected by later getNextUser and
\* reset calls: its totalUsers stays the sum of its profileCounts, and its
\* counts and percentages stay those of the time of the call.  The code
\* copies this.stats one level deep, so the snapshot shares profileCounts
\* and profilePercentages with the distributor.
C36_SnapshotUnaffected ==
  host # EmptyMap =>
    LET counts == Deref(profileDistributor, host.snapshot.profileCounts)
        percentages == Deref(profileDistributor, host.snapshot.profilePercentages)
    IN  /\ host.snapshot.totalUsers = SumCounts(counts, DOMAIN counts)
        /\ host.snapshot.totalUsers = host.atCall.totalUsers
        /\ counts = host.atCall.profileCounts
        /\ percentages = host.atCall.profilePercentages

-----------------------------------------------------------------------------
(* SpecReset: draws, one reset, and the draws after it                     *)

\* distributor.reset(); result keeps the distributor as it was before the
\* call, delivered the calls made since
ResetOnce ==
  /\ result = NoResult
  /\ profileDistributor' = reset(profileDistributor)
  /\ delivered' = <<>>
  /\ result' = [op |-> "reset", before |-> profileDistributor]
  /\ UNCHANGED <<journey, flowEngine, dataExtractor, config, context, host>>

NextReset ==
  \/ \E env \in Envs : GetNextUser(Arrived, env)
  \/ ResetOnce

SpecReset == InitDist /\ [][NextReset]_vars

\* C37: after reset(), whatever was drawn before, the distributor is as it
\* was just after loadData: the next draw of each profile returns its row 0,
\* the next evaluation of each sequence generator returns its start value,
\* all stats are 0, and the loaded rows and the normalized weights are those
\* from before the reset.
C37_ResetToJustLoaded ==
  (result.op = "reset" /\ delivered = <<>>) =>
    LET d == profileDistributor
        profiles == d.config.profiles
    IN  /\ d = loadData(ProfileDistributor(d.config))
        /\ d.userDataCache = result.before.userDataCache
        /\ d.normalizedProfiles = result.before.normalizedProfiles
        /\ d.stats.totalUsers = 0
        /\ \A n \in DOMAIN d.stats.profileCounts :
             /\ d.stats.profileCounts[n] = 0
             /\ d.stats.profilePercentages[n].num = 0
        /\ \A i \in 1..Len(profiles) :
             /\ getNextUserData(d, profiles[i].name).userData
                  = d.userDataCache[profiles[i].name][1]
             /\ \A g \in 1..Len(profiles[i].generators) :
                  LET gen == profiles[i].generators[g]
                  IN  gen.generator.type = "sequence" =>
                        generateSequence(d, gen.generator,
                                         profiles[i].name \o ":" \o gen.name).value
                          = gen.generator.options.start

\* a reset after draws that had moved the row cursor of a profile with more
\* than one row and a sequence
C37_Witness ==
  /\ result.op = "reset"
  /\ delivered = <<>>
  /\ result.before.sequenceCounters # EmptyMap
  /\ result.before.stats.totalUsers > 1
  /\ \E n \in DOMAIN result.before.userIndexes :
       /\ result.before.userIndexes[n] > 0
       /\ Len(profileDistributor.userDataCache[n]) > 1
       /\ result.before.userIndexes[n] % Len(profileDistributor.userDataCache[n]) # 0

-----------------------------------------------------------------------------
(* SpecOwnCopy: a caller writes top-level fields of a UserContext it was   *)
(* given while the distributor goes on drawing                             *)

\* getNextUser(); delivered also keeps which objects the caller was handed
DrawUser(u, env) ==
  /\ Len(delivered) < MaxDraws
  /\ LET r == getNextUser(profileDistributor, env)
         name == selectProfile(profileDistributor, env.random).profile.name
     IN  /\ profileDistributor' = r.d
         /\ delivered' = Append(delivered,
              [vu |-> u, selected |-> name, threw |-> r.threw,
               userContext |-> r.value,
               objects |-> [userData |-> userDataObject(profileDistributor, name),
                            variables |-> variablesObject(profileDistributor, name)]])
  /\ UNCHANGED <<journey, flowEngine, dataExtractor, config, context, host, result>>

\* the ways a caller changes a top-level field: overwrite or add, and delete
FieldWrites ==
  {[kind |-> "set", field |-> "email", value |-> Str(<<"x">>)],
   [kind |-> "set", field |-> "tier", value |-> Str(<<"x">>)],
   [kind |-> "set", field |-> "extra", value |-> Str(<<"x">>)],
   [kind |-> "delete", field |-> "email", value |-> Undefined],
   [kind |-> "delete", field |-> "tier", value |-> Undefined]}

\* object[field] = value, or delete object[field]
ApplyWrite(object, write) ==
  IF write.kind = "set" THEN MapSet(object, write.field, write.value)
  ELSE [x \in (DOMAIN object) \ {write.field} |-> object[x]]

\* the distributor after a write to an object it holds itself
WriteThrough(d, object, part, write) ==
  IF object.kind = "new" THEN d
  ELSE IF part = "userData"
  THEN [d EXCEPT !.userDataCache[object.cache][object.index] = ApplyWrite(@, write)]
  ELSE d

\* the caller of the k-th call writes a field of the userData or of the
\* variables it was given
CallerWrites(k, part, write) ==
  /\ result = NoResult
  /\ k \in Completed
  /\ LET object == delivered[k].objects[part]
     IN  /\ delivered' =
               [i \in 1..Len(delivered) |->
                  IF i = k \/ (i \in Completed /\ object.kind # "new"
                                /\ delivered[i].objects[part] = object)
                  THEN [delivered[i] EXCEPT
                          !.userContext[part] = ApplyWrite(@, write)]
                  ELSE delivered[i]]
         /\ profileDistributor' = WriteThrough(profileDistributor, object, part, write)
  /\ result' = [op |-> "write", index |-> k, part |-> part, write |-> write]
  /\ UNCHANGED <<journey, flowEngine, dataExtractor, config, context, host>>

NextOwnCopy ==
  \/ \E env \in Envs : DrawUser(Arrived, env)
  \/ \E k \in Pending(1..MaxDraws), part \in {"userData", "variables"},
        write \in FieldWrites : CallerWrites(k, part, write)

SpecOwnCopy == InitDist /\ [][NextOwnCopy]_vars

\* the profiles of the configuration that carry the name
ProfilesNamed(name) ==
  {i \in 1..Len(profileDistributor.config.profiles) :
     profileDistributor.config.profiles[i].name = name}

\* C38: a write to a top-level field of a returned userData or variables
\* changes neither the distributor (rows, static variables) nor what any
\* other call returned, and every call made after the write returns the row
\* and the variables as they were loaded, also when the row comes round
\* again.
C38_CallerOwnsCopy ==
  /\ [][(Len(delivered') = Len(delivered) /\ delivered' # delivered) =>
          /\ profileDistributor' = profileDistributor
          /\ \A i \in 1..Len(delivered) :
               i # result'.index => delivered'[i] = delivered[i]]_vars
  /\ [](/\ profileDistributor.userDataCache
             = loadData(ProfileDistributor(profileDistributor.config)).userDataCache
        /\ result.op = "write" =>
             \A k \in Completed :
               k # result.index =>
                 LET name == delivered[k].selected
                     rows == profileDistributor.userDataCache[name]
                     j == Cardinality(DrawsOf(name, k))
                 IN  /\ delivered[k].userContext.userData
                          = rows[((j - 1) % Len(rows)) + 1]
                     /\ \E i \in ProfilesNamed(name) :
                          delivered[k].userContext.variables
                            = profileDistributor.config.profiles[i].variables)

\* the caller changed the userData of a call, and a later call delivered the
\* same row again after the cursor wrapped around
C38_Witness ==
  /\ result.op = "write"
  /\ result.part = "userData"
  /\ \E k \in Completed :
       /\ k > result.index
       /\ delivered[k].selected = delivered[result.index].selected
       /\ Len(profileDistributor.userDataCache[delivered[k].selected]) > 1
       /\ (Cardinality(DrawsOf(delivered[k].selected, k))
             - Cardinality(DrawsOf(delivered[k].selected, result.index)))
            % Len(profileDistributor.userDataCache[delivered[k].selected]) = 0
       /\ delivered[k].userContext.userData
            # delivered[result.index].userContext.userData

====
